---------------------------- MODULE Spec2Model ----------------------------
(***************************************************************************)
(* Model of the vortex proving core: the BN254 field and the optimized     *)
(* Poseidon permutation (poseidon_opt/mod.rs), the paired-insertion sparse *)
(* Merkle tree and its path (merkle_tree.rs), the 2-in/2-out transaction   *)
(* circuit (circuit/mod.rs) and the native prove binding (bindings.rs).    *)
(*                                                                         *)
(* The field, the round counts and the tree height are scaled down so that *)
(* TLC can enumerate them; every algorithm keeps the shape of its source.  *)
(* Indices of the source are 0-based; sequences here are 1-based, so the   *)
(* source's x[i] is x[i + 1].                                              *)
(***************************************************************************)
EXTENDS Integers, Sequences, FiniteSets, TLC

VARIABLES
    input,      \* the ProofInput handed to prove: a record of strings
    cache,      \* PROVING_KEY_CACHE: None or Some(proving key)
    circuit,    \* the TransactionCircuit built from it, or NoValue
    cs,         \* the constraint system generate_constraints filled, or NoValue
    output,     \* what prove returned, or NoValue
    tree,       \* a SparseMerkleTree<TreeHeight>
    moveRoot,   \* the Move-style reference root over the same leaf pairs
    pairs,      \* the leaf pairs inserted into tree so far
    lastInsert, \* how the last insert_pair ended, or NoValue
    merkleProof, \* a leaf and its Path: generated by the tree or supplied, or NoValue
    verified,   \* what verify_path returned for merkleProof, or NoValue
    gadget,     \* the membership gadget synthesized over merkleProof, or NoValue
    verdict,    \* the last call of verify and what it returned, or NoValue
    wasmOutput, \* what the browser prove returned, or NoValue
    lock,       \* the thread holding the mutex of PROVING_KEY_CACHE, or Unlocked
    calls,      \* per thread: the binding call it is in and where it is in it
    hashed,     \* a tuple of field elements and its native and gadget hashes
    indexFound  \* what Path::get_index returned for merkleProof, or NoValue

vars == <<input, cache, circuit, cs, output, tree, moveRoot, pairs, lastInsert,
          merkleProof, verified, gadget, verdict, wasmOutput,
          lock, calls, hashed, indexFound>>

\* The mutex is free
Unlocked == 0

NoValue == [none |-> TRUE]

\* Option<T>
None == [some |-> FALSE]

Some(v) == [some |-> TRUE, value |-> v]

(***************************************************************************)
(* Bounds of the model.                                                    *)
(***************************************************************************)
\* The field order (BN254's scalar field in the source, about 2^254).
FieldModulus == 61
\* The bits above MAX_AMOUNT_BITS in a field element (254 - 248 = 6 in the source).
HighBits == 2
\* Partial rounds of the permutation for t = 2 (56 in the source).
PartialRounds == 1
\* Height of the tree the circuit proves membership in (constants::MERKLE_TREE_LEVEL).
MERKLE_TREE_LEVEL == 2
\* Height N of the SparseMerkleTree<N> of the tree specification.
TreeHeight == 3
\* Bytes of a serialized field element (32 in the source).
FrBytes == 2

(***************************************************************************)
(* The field Fr.                                                           *)
(***************************************************************************)
Fr == 0 .. (FieldModulus - 1)

FrFrom(n) == n % FieldModulus

add(a, b) == (a + b) % FieldModulus

mul(a, b) == (a * b) % FieldModulus

RECURSIVE Pow2(_)
Pow2(n) == IF n = 0 THEN 1 ELSE 2 * Pow2(n - 1)

RECURSIVE BitLength(_)
BitLength(n) == IF n = 0 THEN 0 ELSE 1 + BitLength(n \div 2)

\* Fr::MODULUS_BIT_SIZE: the literal 254 of enforce_range_check.
MODULUS_BIT_SIZE == BitLength(FieldModulus)

MAX_AMOUNT_BITS == MODULUS_BIT_SIZE - HighBits

\* constants::ZERO_VALUE, the empty leaf.
ZERO_VALUE == FrFrom(18)

(***************************************************************************)
(* Poseidon, native (PoseidonOptimized).  The tables c, s, m, p of         *)
(* poseidon_constants_opt are stand-ins: fixed field elements indexed as   *)
(* the source indexes them.                                                *)
(***************************************************************************)
N_ROUNDS_F == 8

n_rounds_p(t) ==
    CASE t = 2 -> PartialRounds
      [] t = 3 -> PartialRounds + 1
      [] t = 4 -> PartialRounds
      [] OTHER -> PartialRounds + 4

poseidon_c(t, i) == (7 * i * i + 3 * i + t + 1) % FieldModulus

poseidon_s(t, i) == (5 * i * i + i + 2 * t + 3) % FieldModulus

poseidon_m(t, j, i) == (2 * j * j + i * j + 3 * i + t + 1) % FieldModulus

poseidon_p(t, j, i) == (i * i + 2 * j + i * j + t + 2) % FieldModulus

pow5(x) ==
    LET x2 == mul(x, x)
        x4 == mul(x2, x2)
    IN  mul(x4, x)

\* result[i] = sum over j of matrix[j][i] * state[j]; usePre selects p over m.
RECURSIVE MixLane(_, _, _, _, _)
MixLane(t, state, usePre, i, j) ==
    IF j = t THEN 0
    ELSE add(mul(IF usePre THEN poseidon_p(t, j, i) ELSE poseidon_m(t, j, i), state[j + 1]),
             MixLane(t, state, usePre, i, j + 1))

RECURSIVE MixFrom(_, _, _, _)
MixFrom(t, state, usePre, i) ==
    IF i = t THEN <<>>
    ELSE <<MixLane(t, state, usePre, i, 0)>> \o MixFrom(t, state, usePre, i + 1)

mix(t, state, usePre) == MixFrom(t, state, usePre, 0)

\* The S-box on every lane, then (addC) the round constants c[base + i].
RECURSIVE SboxAddFrom(_, _, _, _, _)
SboxAddFrom(t, state, addC, base, i) ==
    IF i = t THEN <<>>
    ELSE <<add(pow5(state[i + 1]), IF addC THEN poseidon_c(t, base + i) ELSE 0)>>
         \o SboxAddFrom(t, state, addC, base, i + 1)

\* One full round. (A value bound through a singleton set is evaluated once.)
FullRound(t, state, base, usePre) ==
    CHOOSE res \in { mix(t, sb, usePre) :
                     sb \in { SboxAddFrom(t, state, TRUE, base, 0) } } : TRUE

\* Rounds r..n-1 of a half: constants c[base + r * t + i], matrix m.
RECURSIVE FullRounds(_, _, _, _, _)
FullRounds(t, state, r, n, base) ==
    IF r = n THEN state
    ELSE CHOOSE res \in { FullRounds(t, nxt, r + 1, n, base) :
                          nxt \in { FullRound(t, state, base + r * t, FALSE) } } : TRUE

RECURSIVE SparseSum(_, _, _, _)
SparseSum(t, st, r, j) ==
    IF j = t THEN 0
    ELSE add(mul(poseidon_s(t, (t * 2 - 1) * r + j), st[j + 1]), SparseSum(t, st, r, j + 1))

RECURSIVE SparseTail(_, _, _, _)
SparseTail(t, st, r, k) ==
    IF k = t THEN <<>>
    ELSE <<add(st[k + 1], mul(st[1], poseidon_s(t, (t * 2 - 1) * r + t + k - 1)))>>
         \o SparseTail(t, st, r, k + 1)

\* One partial round: S-box and constant on lane 0, then the sparse mix.
PartialRound(t, state, r) ==
    CHOOSE res \in { <<SparseSum(t, st, r, 0)>> \o SparseTail(t, st, r, 1) :
                     st \in { [state EXCEPT ![1] =
                                 add(pow5(state[1]),
                                     poseidon_c(t, (N_ROUNDS_F \div 2 + 1) * t + r))] } } : TRUE

RECURSIVE PartialRoundsFrom(_, _, _)
PartialRoundsFrom(t, state, r) ==
    IF r = n_rounds_p(t) THEN state
    ELSE CHOOSE res \in { PartialRoundsFrom(t, nxt, r + 1) :
                          nxt \in { PartialRound(t, state, r) } } : TRUE

RECURSIVE AddInitial(_, _, _)
AddInitial(t, state, i) ==
    IF i = t THEN <<>>
    ELSE <<add(state[i + 1], poseidon_c(t, i))>> \o AddInitial(t, state, i + 1)

\* The final round: S-box, mix with m, no constants; the output is lane 0.
FinalRound(t, state) ==
    CHOOSE res \in { MixLane(t, sb, FALSE, 0, 0) :
                     sb \in { SboxAddFrom(t, state, FALSE, 0, 0) } } : TRUE

hash(inputs) ==
    LET t == Len(inputs) + 1
    IN  CHOOSE res \in { FinalRound(t, s4) : s4 \in {
            FullRounds(t, s3, 0, N_ROUNDS_F \div 2 - 1,
                       (N_ROUNDS_F \div 2 + 1) * t + n_rounds_p(t)) : s3 \in {
            PartialRoundsFrom(t, s2, 0) : s2 \in {
            FullRound(t, s1, (N_ROUNDS_F \div 2) * t, TRUE) : s1 \in {
            FullRounds(t, s0, 0, N_ROUNDS_F \div 2 - 1, t) : s0 \in {
            AddInitial(t, st, 0) : st \in { <<0>> \o inputs } } } } } } } : TRUE

hash1(x) == hash(<<x>>)

hash2(x, y) == hash(<<x, y>>)

hash3(x, y, z) == hash(<<x, y, z>>)

hash4(x, y, z, w) == hash(<<x, y, z, w>>)

(***************************************************************************)
(* Path<N> and SparseMerkleTree<N> (merkle_tree.rs).                       *)
(***************************************************************************)
\* 0-based access to a sequence, as the source indexes its arrays.
At(seq, i) == seq[i + 1]

SetAt(seq, i, v) == [seq EXCEPT ![i + 1] = v]

\* Path::empty(): N pairs of zeros.
EmptyPath(N) == [i \in 1 .. N |-> <<0, 0>>]

\* Path::calculate_root: the running hash goes left when it equals the pair's left.
RECURSIVE CalculateRootFrom(_, _, _)
CalculateRootFrom(path, previous_hash, i) ==
    IF i > Len(path) THEN previous_hash
    ELSE LET previous_is_left == previous_hash = path[i][1]
             left_hash  == IF previous_is_left THEN previous_hash ELSE path[i][1]
             right_hash == IF previous_is_left THEN path[i][2] ELSE previous_hash
         IN  CHOOSE res \in { CalculateRootFrom(path, h, i + 1) :
                              h \in { hash2(left_hash, right_hash) } } : TRUE

calculate_root(path, leaf) == CalculateRootFrom(path, leaf, 1)

\* Path::check_membership
check_membership(path, root_hash, leaf) == calculate_root(path, leaf) = root_hash

\* Path::get_index: bit 0 from the leaf's side, bit "level" set when the hash
\* of the level below is not the left entry.
RECURSIVE GetIndexFrom(_, _, _, _)
GetIndexFrom(path, prev, level, index) ==
    IF level >= Len(path) THEN index
    ELSE CHOOSE res \in {
             GetIndexFrom(path, h, level + 1,
                          IF prev # path[level + 1][1]
                          THEN add(index, FrFrom(Pow2(level))) ELSE index) :
             h \in { hash2(path[level + 1][1], path[level + 1][2]) } } : TRUE

get_index(path, root_hash, leaf) ==
    IF ~check_membership(path, root_hash, leaf)
    THEN [ok |-> FALSE, index |-> 0]
    ELSE [ok |-> TRUE,
          index |-> GetIndexFrom(path, hash2(path[1][1], path[1][2]), 1,
                                 IF leaf = path[1][1] THEN 0 ELSE 1)]

\* empty_hashes[0] = empty_leaf, empty_hashes[i] = hash2 of the level below, twice.
RECURSIVE EmptyHashesUpTo(_)
EmptyHashesUpTo(n) ==
    IF n = 0 THEN <<ZERO_VALUE>>
    ELSE CHOOSE res \in { prev \o <<hash2(prev[n], prev[n])>> :
                          prev \in { EmptyHashesUpTo(n - 1) } } : TRUE

\* Entries 0 .. TreeHeight + 1 of the table, computed once.
EmptyHashTable == EmptyHashesUpTo(TreeHeight + MERKLE_TREE_LEVEL + 1)

\* The empty_hashes array of a SparseMerkleTree<N>: entries 0 .. N-1.
empty_hashes(N) == SubSeq(EmptyHashTable, 1, N)

\* SparseMerkleTree::new with no leaf pairs (new_empty).
new_empty(N) ==
    [leaves   |-> <<>>,
     subtrees |-> empty_hashes(N),
     root     |-> At(empty_hashes(N), N - 1)]

\* The loop "for i in 1..N" of insert_pair over (current_index, current_level_hash,
\* subtrees); the result carries the last hash and the updated cache.
RECURSIVE InsertLevels(_, _, _, _, _)
InsertLevels(N, i, current_index, current_level_hash, subtrees) ==
    IF i >= N THEN [hash |-> current_level_hash, subtrees |-> subtrees]
    ELSE LET isLeft == current_index % 2 = 0
             left   == IF isLeft THEN current_level_hash ELSE At(subtrees, i)
             right  == IF isLeft THEN At(empty_hashes(N), i) ELSE current_level_hash
             cached == IF isLeft THEN SetAt(subtrees, i, current_level_hash) ELSE subtrees
         IN  CHOOSE res \in { InsertLevels(N, i + 1, current_index \div 2, h, cached) :
                              h \in { hash2(left, right) } } : TRUE

\* An insertion that refuses the pair that would fill the tree
InsertPairRefusesLast(N, t, leaf1, leaf2) ==
    IF Len(t.leaves) + 2 >= Pow2(N)
    THEN [ok |-> FALSE, tree |-> t]
    ELSE LET leaves == t.leaves \o <<leaf1, leaf2>>
         IN  CHOOSE res \in {
                 [ok |-> TRUE,
                  tree |-> [leaves |-> leaves, subtrees |-> up.subtrees, root |-> up.hash]] :
                 up \in { InsertLevels(N, 1, (Len(leaves) - 2) \div 2, hash2(leaf1, leaf2),
                                       t.subtrees) } } : TRUE

\* SparseMerkleTree::insert_pair: [ok, tree]; a full tree is returned unchanged.
insert_pair(N, t, leaf1, leaf2) ==
    IF Len(t.leaves) + 2 > Pow2(N)
    THEN [ok |-> FALSE, tree |-> t]
    ELSE LET leaves == t.leaves \o <<leaf1, leaf2>>
         IN  CHOOSE res \in {
                 [ok |-> TRUE,
                  tree |-> [leaves |-> leaves, subtrees |-> up.subtrees, root |-> up.hash]] :
                 up \in { InsertLevels(N, 1, (Len(leaves) - 2) \div 2, hash2(leaf1, leaf2),
                                       t.subtrees) } } : TRUE

\* SparseMerkleTree::new: an empty tree, then insert_pair for every pair in order.
RECURSIVE InsertAll(_, _, _, _)
InsertAll(N, t, leaf_pairs, k) ==
    IF k > Len(leaf_pairs) THEN [ok |-> TRUE, tree |-> t]
    ELSE CHOOSE res \in {
             IF r.ok THEN InsertAll(N, r.tree, leaf_pairs, k + 1)
             ELSE [ok |-> FALSE, tree |-> r.tree] :
             r \in { insert_pair(N, t, leaf_pairs[k][1], leaf_pairs[k][2]) } } : TRUE

new(N, leaf_pairs) == InsertAll(N, new_empty(N), leaf_pairs, 1)

\* SparseMerkleTree::insert_batch: insert_pair for every pair in order; the
\* first failure ends the call and the pairs before it stay inserted.
insert_batch(N, t, leaf_pairs) == InsertAll(N, t, leaf_pairs, 1)

\* The loop "for i in (0..leaves.len()).step_by(2)" of bulk_insert
RECURSIVE BulkInsertFrom(_, _, _, _)
BulkInsertFrom(N, t, leaves, i) ==
    IF i >= Len(leaves) THEN [ok |-> TRUE, tree |-> t]
    ELSE CHOOSE res \in {
             IF r.ok THEN BulkInsertFrom(N, r.tree, leaves, i + 2)
             ELSE [ok |-> FALSE, tree |-> r.tree] :
             r \in { insert_pair(N, t, At(leaves, i), At(leaves, i + 1)) } } : TRUE

\* A bulk insertion that empties the tree when handed an odd number of leaves
BulkInsertResetsOnOdd(N, t, leaves) ==
    IF Len(leaves) % 2 # 0 THEN [ok |-> FALSE, tree |-> new_empty(N)]
    ELSE BulkInsertFrom(N, t, leaves, 0)

\* SparseMerkleTree::bulk_insert: an odd number of leaves is refused before
\* anything is inserted
bulk_insert(N, t, leaves) ==
    IF Len(leaves) % 2 # 0 THEN [ok |-> FALSE, tree |-> t]
    ELSE BulkInsertFrom(N, t, leaves, 0)

\* SparseMerkleTree::is_full
is_full(N, t) == Len(t.leaves) >= Pow2(N)

(***************************************************************************)
(* move_style_root: the contract-style reference of the tree's tests.      *)
(***************************************************************************)
\* empty_subtree_hashes: entries 0 .. N.
empty_subtree_hashes(N) == SubSeq(EmptyHashTable, 1, N + 1)

RECURSIVE MoveLevels(_, _, _, _, _)
MoveLevels(N, i, current_index, current_level_hash, subtrees) ==
    IF i >= N THEN [hash |-> current_level_hash, subtrees |-> subtrees]
    ELSE LET isLeft == current_index % 2 = 0
             left   == IF isLeft THEN current_level_hash ELSE At(subtrees, i)
             right  == IF isLeft THEN At(empty_subtree_hashes(N), i)
                       ELSE current_level_hash
             cached == IF isLeft THEN SetAt(subtrees, i, current_level_hash) ELSE subtrees
         IN  CHOOSE res \in { MoveLevels(N, i + 1, current_index \div 2, h, cached) :
                              h \in { hash2(left, right) } } : TRUE

RECURSIVE MovePairs(_, _, _, _, _, _)
MovePairs(N, leaf_pairs, k, subtrees, next_index, root) ==
    IF k > Len(leaf_pairs) THEN root
    ELSE LET up == MoveLevels(N, 1, next_index \div 2,
                              hash2(leaf_pairs[k][1], leaf_pairs[k][2]), subtrees)
         IN  MovePairs(N, leaf_pairs, k + 1, up.subtrees, next_index + 2, up.hash)

move_style_root(N, leaf_pairs) ==
    MovePairs(N, leaf_pairs, 1, SubSeq(empty_subtree_hashes(N), 1, N), 0,
              At(empty_subtree_hashes(N), N))

(***************************************************************************)
(* SparseMerkleTree::generate_membership_proof and verify_path.            *)
(***************************************************************************)
\* The right leaf of pair p, or empty_hashes[0] when the list ends before it.
RightLeafOf(N, t, pr) ==
    IF pr * 2 + 1 < Len(t.leaves) THEN At(t.leaves, pr * 2 + 1)
    ELSE At(empty_hashes(N), 0)

\* pair_hashes: hash2 of every stored pair, in order.
RECURSIVE PairHashesFrom(_, _, _, _)
PairHashesFrom(N, t, pr, num_pairs) ==
    IF pr >= num_pairs THEN <<>>
    ELSE <<hash2(At(t.leaves, pr * 2), RightLeafOf(N, t, pr))>>
         \o PairHashesFrom(N, t, pr + 1, num_pairs)

\* The inner walk "from level 1 to the current level" of one simulated insertion.
RECURSIVE WalkUp(_, _, _, _, _, _)
WalkUp(N, k, level, pos, h, level_subtrees) ==
    IF k >= level THEN [hash |-> h, subtrees |-> level_subtrees]
    ELSE LET isLeft == pos % 2 = 0
             left   == IF isLeft THEN h ELSE At(level_subtrees, k)
             right  == IF isLeft THEN At(empty_hashes(N), k) ELSE h
             cached == IF isLeft THEN SetAt(level_subtrees, k, h) ELSE level_subtrees
         IN  CHOOSE res \in { WalkUp(N, k + 1, level, pos \div 2, nh, cached) :
                              nh \in { hash2(left, right) } } : TRUE

\* Vec::resize(n, fill) when the vector is shorter than n.
RECURSIVE Resize(_, _, _)
Resize(seq, n, fill) == IF Len(seq) >= n THEN seq ELSE Resize(Append(seq, fill), n, fill)

\* The loop over pair_hashes at one level: child_hashes[pair_idx >> (level - 1)] = hash.
RECURSIVE ChildHashesLoop(_, _, _, _, _, _)
ChildHashesLoop(N, level, pair_hashes, pair_idx, level_subtrees, child_hashes) ==
    IF pair_idx >= Len(pair_hashes) THEN child_hashes
    ELSE LET up        == WalkUp(N, 1, level, pair_idx, At(pair_hashes, pair_idx),
                                 level_subtrees)
             level_pos == pair_idx \div Pow2(level - 1)
             grown     == IF Len(child_hashes) <= level_pos
                          THEN Resize(child_hashes, level_pos + 1, At(empty_hashes(N), level))
                          ELSE child_hashes
         IN  CHOOSE res \in { ChildHashesLoop(N, level, pair_hashes, pair_idx + 1,
                                              u.subtrees, SetAt(grown, level_pos, u.hash)) :
                              u \in { up } } : TRUE

\* level_child_hashes: entry level - 1 holds the child hashes of level 1 .. N-1.
RECURSIVE LevelChildHashesFrom(_, _, _)
LevelChildHashesFrom(N, pair_hashes, level) ==
    IF level >= N THEN <<>>
    ELSE <<ChildHashesLoop(N, level, pair_hashes, 0, empty_hashes(N), <<>>)>>
         \o LevelChildHashesFrom(N, pair_hashes, level + 1)

\* A lookup that never finds the stored hash
SiblingAlwaysDefault(seq, i, default) == default

\* Vec::get(i).copied().unwrap_or(default)
GetOr(seq, i, default) == IF i >= 0 /\ i < Len(seq) THEN At(seq, i) ELSE default

\* The loop that extracts the sibling of every level 1 .. N-1 into the path.
RECURSIVE ExtractSiblings(_, _, _, _, _, _, _)
ExtractSiblings(N, t, level_child_hashes, level, current_index, current_hash, path) ==
    IF level >= N THEN path
    ELSE LET isLeft       == current_index % 2 = 0
             child_hashes == At(level_child_hashes, level - 1)
             sibling ==
                 IF isLeft
                 THEN GetOr(child_hashes, current_index + 1, At(empty_hashes(N), level))
                 ELSE IF current_index > 0
                      THEN GetOr(child_hashes, current_index - 1, At(t.subtrees, level))
                      ELSE At(t.subtrees, level)
             elem == IF isLeft THEN <<current_hash, sibling>> ELSE <<sibling, current_hash>>
         IN  CHOOSE res \in { ExtractSiblings(N, t, level_child_hashes, level + 1,
                                              current_index \div 2, nh,
                                              SetAt(path, level, elem)) :
                              nh \in { hash2(elem[1], elem[2]) } } : TRUE

\* generate_membership_proof: [ok, path]; an index past the leaves is an error.
generate_membership_proof(N, t, index) ==
    IF index >= Len(t.leaves)
    THEN [ok |-> FALSE, path |-> EmptyPath(N)]
    ELSE LET pair_index  == index \div 2
             leaf_left   == At(t.leaves, pair_index * 2)
             leaf_right  == RightLeafOf(N, t, pair_index)
             num_pairs   == (Len(t.leaves) + 1) \div 2
             pair_hashes == PairHashesFrom(N, t, 0, num_pairs)
         IN  [ok |-> TRUE,
              path |-> CHOOSE res \in {
                  ExtractSiblings(N, t, lch, 1, pair_index, hash2(leaf_left, leaf_right),
                                  SetAt(EmptyPath(N), 0, <<leaf_left, leaf_right>>)) :
                  lch \in { LevelChildHashesFrom(N, ph, 1) : ph \in { pair_hashes } } } : TRUE]

\* SparseMerkleTree::verify_path
verify_path(N, t, index, path) ==
    IF index >= Len(t.leaves) THEN FALSE
    ELSE check_membership(path, t.root, At(t.leaves, index))

(***************************************************************************)
(* Poseidon, in circuit (PoseidonOptimizedVar).  A gadget computes the     *)
(* value of every variable it allocates; its constraints tie each product  *)
(* to its factors, so the value below is the one the constraints admit.    *)
(***************************************************************************)
\* An S-box gadget of degree three
CubeVar(x) == mul(mul(x, x), x)

\* PoseidonOptimizedVar::pow5_var
pow5_var(x) ==
    LET x2 == mul(x, x)
        x4 == mul(x2, x2)
    IN  mul(x4, x)

\* acc += state[j] * matrix[j][i], for j = 0 .. t-1
RECURSIVE MixVarAcc(_, _, _, _, _, _)
MixVarAcc(t, state, usePre, i, j, acc) ==
    IF j = t THEN acc
    ELSE MixVarAcc(t, state, usePre, i, j + 1,
                   add(acc, mul(state[j + 1],
                                IF usePre THEN poseidon_p(t, j, i) ELSE poseidon_m(t, j, i))))

RECURSIVE MixVarFrom(_, _, _, _)
MixVarFrom(t, state, usePre, i) ==
    IF i = t THEN <<>>
    ELSE <<MixVarAcc(t, state, usePre, i, 0, 0)>> \o MixVarFrom(t, state, usePre, i + 1)

mix_var(t, state, usePre) == MixVarFrom(t, state, usePre, 0)

RECURSIVE SboxVarFrom(_, _, _)
SboxVarFrom(t, state, i) ==
    IF i = t THEN <<>> ELSE <<pow5_var(state[i + 1])>> \o SboxVarFrom(t, state, i + 1)

RECURSIVE AddConstantsVar(_, _, _, _)
AddConstantsVar(t, state, base, i) ==
    IF i = t THEN <<>>
    ELSE <<add(state[i + 1], poseidon_c(t, base + i))>> \o AddConstantsVar(t, state, base, i + 1)

FullRoundVar(t, state, base, usePre) ==
    CHOOSE res \in { mix_var(t, withC, usePre) :
                     withC \in { AddConstantsVar(t, sb, base, 0) :
                                 sb \in { SboxVarFrom(t, state, 0) } } } : TRUE

RECURSIVE FullRoundsVar(_, _, _, _, _)
FullRoundsVar(t, state, r, n, base) ==
    IF r = n THEN state
    ELSE CHOOSE res \in { FullRoundsVar(t, nxt, r + 1, n, base) :
                          nxt \in { FullRoundVar(t, state, base + r * t, FALSE) } } : TRUE

RECURSIVE SparseSumVar(_, _, _, _, _)
SparseSumVar(t, st, r, j, acc) ==
    IF j = t THEN acc
    ELSE SparseSumVar(t, st, r, j + 1,
                      add(acc, mul(st[j + 1], poseidon_s(t, (t * 2 - 1) * r + j))))

RECURSIVE SparseTailVar(_, _, _, _)
SparseTailVar(t, st, r, k) ==
    IF k = t THEN <<>>
    ELSE <<add(st[k + 1], mul(st[1], poseidon_s(t, (t * 2 - 1) * r + t + k - 1)))>>
         \o SparseTailVar(t, st, r, k + 1)

PartialRoundVar(t, state, r) ==
    CHOOSE res \in { <<SparseSumVar(t, st, r, 0, 0)>> \o SparseTailVar(t, st, r, 1) :
                     st \in { [state EXCEPT ![1] =
                                 add(pow5_var(state[1]),
                                     poseidon_c(t, (N_ROUNDS_F \div 2 + 1) * t + r))] } } : TRUE

RECURSIVE PartialRoundsVarFrom(_, _, _)
PartialRoundsVarFrom(t, state, r) ==
    IF r = n_rounds_p(t) THEN state
    ELSE CHOOSE res \in { PartialRoundsVarFrom(t, nxt, r + 1) :
                          nxt \in { PartialRoundVar(t, state, r) } } : TRUE

FinalRoundVar(t, state) ==
    CHOOSE res \in { mix_var(t, sb, FALSE)[1] : sb \in { SboxVarFrom(t, state, 0) } } : TRUE

hash_var(inputs) ==
    LET t == Len(inputs) + 1
    IN  CHOOSE res \in { FinalRoundVar(t, s4) : s4 \in {
            FullRoundsVar(t, s3, 0, N_ROUNDS_F \div 2 - 1,
                          (N_ROUNDS_F \div 2 + 1) * t + n_rounds_p(t)) : s3 \in {
            PartialRoundsVarFrom(t, s2, 0) : s2 \in {
            FullRoundVar(t, s1, (N_ROUNDS_F \div 2) * t, TRUE) : s1 \in {
            FullRoundsVar(t, s0, 0, N_ROUNDS_F \div 2 - 1, t) : s0 \in {
            AddConstantsVar(t, st, 0, 0) : st \in { <<0>> \o inputs } } } } } } } : TRUE

hash1_var(x) == hash_var(<<x>>)

hash2_var(x, y) == hash_var(<<x, y>>)

hash3_var(x, y, z) == hash_var(<<x, y, z>>)

hash4_var(x, y, z, w) == hash_var(<<x, y, z, w>>)

\* The three multiplication constraints of pow5_var on x, a * b = c, with
\* the values the gadget assigns to their variables
Pow5Constraints(x) ==
    LET x2 == mul(x, x)
        x4 == mul(x2, x2)
    IN  <<[a |-> x, b |-> x, c |-> x2],
          [a |-> x2, b |-> x2, c |-> x4],
          [a |-> x4, b |-> x, c |-> pow5_var(x)]>>

RECURSIVE SboxConstraints(_, _)
SboxConstraints(state, lanes) ==
    IF lanes = 0 THEN <<>>
    ELSE SboxConstraints(state, lanes - 1) \o Pow5Constraints(state[lanes])

\* The constraints of rounds r..n-1 of a half of the gadget's full rounds
RECURSIVE FullRoundsVarConstraints(_, _, _, _, _)
FullRoundsVarConstraints(t, state, r, n, base) ==
    IF r = n THEN <<>>
    ELSE SboxConstraints(state, t)
         \o FullRoundsVarConstraints(t, FullRoundVar(t, state, base + r * t, FALSE),
                                     r + 1, n, base)

RECURSIVE PartialRoundsVarConstraints(_, _, _)
PartialRoundsVarConstraints(t, state, r) ==
    IF r = n_rounds_p(t) THEN <<>>
    ELSE SboxConstraints(state, 1)
         \o PartialRoundsVarConstraints(t, PartialRoundVar(t, state, r), r + 1)

\* Every constraint PoseidonOptimizedVar::hash emits: the additions and the
\* products with constants are linear combinations and emit none
hash_var_constraints(inputs) ==
    LET t  == Len(inputs) + 1
        n  == N_ROUNDS_F \div 2 - 1
        s0 == AddConstantsVar(t, <<0>> \o inputs, 0, 0)
        s1 == FullRoundsVar(t, s0, 0, n, t)
        s2 == FullRoundVar(t, s1, (N_ROUNDS_F \div 2) * t, TRUE)
        s3 == PartialRoundsVarFrom(t, s2, 0)
        b3 == (N_ROUNDS_F \div 2 + 1) * t + n_rounds_p(t)
        s4 == FullRoundsVar(t, s3, 0, n, b3)
    IN  FullRoundsVarConstraints(t, s0, 0, n, t)
        \o SboxConstraints(s1, t)
        \o PartialRoundsVarConstraints(t, s2, 0)
        \o FullRoundsVarConstraints(t, s3, 0, n, b3)
        \o SboxConstraints(s4, t)

\* ConstraintSystem::is_satisfied over multiplication constraints
ConstraintsSatisfied(constraints) ==
    \A k \in 1..Len(constraints) :
        mul(constraints[k].a, constraints[k].b) = constraints[k].c

(***************************************************************************)
(* PathVar (merkle_tree.rs): the in-circuit path.                          *)
(***************************************************************************)
\* A selection with its two branches exchanged
SelectSwapped(cond, a, b) == IF cond THEN b ELSE a

\* FpVar::conditionally_select(cond, a, b)
conditionally_select(cond, a, b) == IF cond THEN a ELSE b

RECURSIVE RootHashFrom(_, _, _)
RootHashFrom(path, previous_hash, i) ==
    IF i > Len(path) THEN previous_hash
    ELSE LET previous_is_left == previous_hash = path[i][1]
             left_hash  == conditionally_select(previous_is_left, previous_hash, path[i][1])
             right_hash == conditionally_select(previous_is_left, path[i][2], previous_hash)
         IN  CHOOSE res \in { RootHashFrom(path, h, i + 1) :
                              h \in { hash2_var(left_hash, right_hash) } } : TRUE

\* PathVar::root_hash
root_hash(path, leaf) == RootHashFrom(path, leaf, 1)

\* PathVar::check_membership: the Boolean root.is_eq(computed_root)
check_membership_var(path, root, leaf) == root = root_hash(path, leaf)

(***************************************************************************)
(* Strings and bytes.  A Rust String is a sequence of one-character        *)
(* strings, a Vec<u8> a sequence of numbers in 0 .. 255.                   *)
(***************************************************************************)
DecimalDigits == <<"0", "1", "2", "3", "4", "5", "6", "7", "8", "9">>

HexDigits == DecimalDigits \o <<"a", "b", "c", "d", "e", "f">>

IsDecimalDigit(ch) == \E d \in 1..10 : DecimalDigits[d] = ch

DigitValue(ch) == (CHOOSE d \in 1..10 : DecimalDigits[d] = ch) - 1

\* BigUint::to_string: canonical decimal, no leading zeros, "0" for zero
RECURSIVE to_string(_)
to_string(n) ==
    IF n < 10 THEN <<DecimalDigits[n + 1]>>
    ELSE to_string(n \div 10) \o <<DecimalDigits[(n % 10) + 1]>>

\* BigUint::from_str (radix 10): one leading "+" is dropped, the rest must be
\* non-empty, must not start with "_", and consists of digits and "_"
\* separators, which are skipped.
RECURSIVE DigitsValue(_, _)
DigitsValue(str, acc) ==
    IF str = <<>> THEN [ok |-> TRUE, value |-> acc]
    ELSE IF Head(str) = "_" THEN DigitsValue(Tail(str), acc)
    ELSE IF IsDecimalDigit(Head(str))
         THEN DigitsValue(Tail(str), acc * 10 + DigitValue(Head(str)))
    ELSE [ok |-> FALSE, value |-> 0]

BigUint_from_str(str) ==
    LET body == IF str # <<>> /\ Head(str) = "+" /\ ~(Len(str) > 1 /\ str[2] = "+")
                THEN Tail(str) ELSE str
    IN  IF body = <<>> \/ Head(body) = "_" THEN [ok |-> FALSE, value |-> 0]
        ELSE DigitsValue(body, 0)

\* bindings.rs parse_fr: any decimal natural is accepted and reduced into Fr
parse_fr(str) ==
    LET r == BigUint_from_str(str)
    IN  IF r.ok THEN [ok |-> TRUE, value |-> FrFrom(r.value)]
        ELSE [ok |-> FALSE, error |-> "ParseError"]

\* bindings.rs fr_to_string
fr_to_string(f) == to_string(f)

\* Fr::serialize_compressed: FrBytes little-endian bytes
RECURSIVE LeBytes(_, _)
LeBytes(n, k) == IF k = 0 THEN <<>> ELSE <<n % 256>> \o LeBytes(n \div 256, k - 1)

serialize_compressed(f) == LeBytes(f, FrBytes)

\* hex::encode: two lower-case digits per byte, high nibble first
RECURSIVE hex_encode(_)
hex_encode(bytes) ==
    IF bytes = <<>> THEN <<>>
    ELSE <<HexDigits[(Head(bytes) \div 16) + 1], HexDigits[(Head(bytes) % 16) + 1]>>
         \o hex_encode(Tail(bytes))

(***************************************************************************)
(* TransactionCircuit (circuit/mod.rs)                                     *)
(***************************************************************************)
N_INS == 2

N_OUTS == 2

\* TransactionCircuit::empty
empty ==
    [vortex |-> 0, root |-> 0, public_amount |-> 0,
     input_nullifier_0 |-> 0, input_nullifier_1 |-> 0,
     output_commitment_0 |-> 0, output_commitment_1 |-> 0,
     hashed_account_secret |-> 0,
     account_secret |-> 0,
     in_private_keys |-> <<0, 0>>, in_amounts |-> <<0, 0>>,
     in_blindings |-> <<0, 0>>, in_path_indices |-> <<0, 0>>,
     merkle_paths |-> <<EmptyPath(MERKLE_TREE_LEVEL), EmptyPath(MERKLE_TREE_LEVEL)>>,
     out_public_keys |-> <<0, 0>>, out_amounts |-> <<0, 0>>, out_blindings |-> <<0, 0>>]

\* TransactionCircuit::new: the only validation is on the path indices
TransactionCircuit_new(fields) ==
    LET max_index == FrFrom(Pow2(MERKLE_TREE_LEVEL))
    IN  IF \E i \in 1..N_INS : fields.in_path_indices[i] >= max_index
        THEN [ok |-> FALSE, error |-> "path index exceeds tree capacity"]
        ELSE [ok |-> TRUE, circuit |-> fields]

\* A getter with public_amount after the output commitments
PublicInputsAmountLate(self) ==
    <<self.vortex, self.root,
      self.input_nullifier_0, self.input_nullifier_1,
      self.output_commitment_0, self.output_commitment_1,
      self.public_amount, self.hashed_account_secret>>

\* TransactionCircuit::get_public_inputs
get_public_inputs(self) ==
    <<self.vortex, self.root, self.public_amount,
      self.input_nullifier_0, self.input_nullifier_1,
      self.output_commitment_0, self.output_commitment_1,
      self.hashed_account_secret>>

\* TransactionCircuit::get_public_inputs_serialized
RECURSIVE SerializeAll(_)
SerializeAll(frs) ==
    IF frs = <<>> THEN <<>> ELSE serialize_compressed(Head(frs)) \o SerializeAll(Tail(frs))

get_public_inputs_serialized(self) == SerializeAll(get_public_inputs(self))

\* FpVar::to_bits_le: the canonical bits of the value, least significant first
to_bits_le(value) == [k \in 1..MODULUS_BIT_SIZE |-> ((value \div Pow2(k - 1)) % 2) = 1]

\* A range check that enforces nothing on the high bits
RangeUnchecked(value, value_is_zero) == TRUE

\* enforce_range_check: TRUE iff every constraint it adds is satisfied
enforce_range_check(value, value_is_zero) ==
    LET value_bits == to_bits_le(value)
        value_is_non_zero == ~value_is_zero
    IN  \A k \in (MAX_AMOUNT_BITS + 1)..MODULUS_BIT_SIZE :
            value_is_non_zero => (value_bits[k] = FALSE)

\* A circuit that never enforces the account secret
AccountSecretUnchecked(expected_hashed_account_secret, hashed_account_secret) == TRUE

\* expected_hashed_account_secret.conditional_enforce_equal(hashed_account_secret,
\* hashed_account_secret != 0)
AccountSecretConstraint(expected_hashed_account_secret, hashed_account_secret) ==
    LET zero == 0
        hashed_account_secret_is_non_zero == ~(hashed_account_secret = zero)
    IN  hashed_account_secret_is_non_zero
            => (expected_hashed_account_secret = hashed_account_secret)

\* A circuit that never ties the computed nullifier to the public one
NullifierUnchecked(nullifier, nullifier_in) == TRUE

\* nullifier.enforce_equal(input_nullifiers[i])
NullifierConstraint(nullifier, nullifier_in) == nullifier = nullifier_in

\* A circuit that never enforces Merkle membership
MembershipUnchecked(merkle_path_membership, amount_is_zero) == TRUE

\* merkle_path_membership.conditional_enforce_equal(true, amount_is_non_zero)
MembershipConstraint(merkle_path_membership, amount_is_zero) ==
    LET amount_is_non_zero == ~amount_is_zero
    IN  amount_is_non_zero => (merkle_path_membership = TRUE)

\* expected_commitment.enforce_equal(output_commitment[i])
CommitmentConstraint(expected_commitment, commitment_out) ==
    expected_commitment = commitment_out

\* A circuit without the not-equal constraint on the nullifiers
NullifiersMayBeEqual(nullifier_0, nullifier_1) == "Ok"

\* input_nullifiers[0].enforce_not_equal(input_nullifiers[1]): the gadget
\* allocates the inverse of the difference as a witness and enforces
\* difference * inverse = 1; when the two values are equal there is no
\* inverse and the allocation fails with SynthesisError::AssignmentMissing.
NullifiersNotEqualConstraint(nullifier_0, nullifier_1) ==
    IF nullifier_0 = nullifier_1 THEN "AssignmentMissing" ELSE "Ok"

\* A circuit without the balance constraint
BalanceUnchecked(sum_ins, public_amount, sum_outs) == TRUE

\* (sum_ins + public_amount).enforce_equal(sum_outs)
BalanceConstraint(sum_ins, public_amount, sum_outs) ==
    add(sum_ins, public_amount) = sum_outs

\* An allocation with public_amount after the output commitments
PublicAmountAllocatedLate(self) ==
    <<[name |-> "vortex", value |-> self.vortex],
      [name |-> "root", value |-> self.root],
      [name |-> "input_nullifier_0", value |-> self.input_nullifier_0],
      [name |-> "input_nullifier_1", value |-> self.input_nullifier_1],
      [name |-> "output_commitment_0", value |-> self.output_commitment_0],
      [name |-> "output_commitment_1", value |-> self.output_commitment_1],
      [name |-> "public_amount", value |-> self.public_amount],
      [name |-> "hashed_account_secret", value |-> self.hashed_account_secret]>>

\* The eight FpVar::new_input calls, in their order, each under its namespace
PublicInputAllocation(self) ==
    <<[name |-> "vortex", value |-> self.vortex],
      [name |-> "root", value |-> self.root],
      [name |-> "public_amount", value |-> self.public_amount],
      [name |-> "input_nullifier_0", value |-> self.input_nullifier_0],
      [name |-> "input_nullifier_1", value |-> self.input_nullifier_1],
      [name |-> "output_commitment_0", value |-> self.output_commitment_0],
      [name |-> "output_commitment_1", value |-> self.output_commitment_1],
      [name |-> "hashed_account_secret", value |-> self.hashed_account_secret]>>

\* One iteration of the input loop of generate_constraints
InputFromSignature(self, root, nullifier_in, i, commitment, nullifier) ==
    LET zero == 0
        amount_is_zero == self.in_amounts[i] = zero
    IN  CHOOSE res \in {
            [commitment |-> commitment,
             nullifier |-> nullifier,
             nullifier_equal |-> NullifierConstraint(nullifier, nullifier_in),
             range_check |-> enforce_range_check(self.in_amounts[i], amount_is_zero),
             merkle_path_membership |-> membership,
             membership_enforced |-> MembershipConstraint(membership, amount_is_zero)] :
            membership \in { check_membership_var(self.merkle_paths[i], root, commitment) } } : TRUE

InputFromCommitment(self, root, nullifier_in, i, commitment) ==
    CHOOSE res \in {
        InputFromSignature(self, root, nullifier_in, i, commitment, nullifier) :
        nullifier \in {
            hash3_var(commitment, self.in_path_indices[i], signature) :
            signature \in { hash3_var(self.in_private_keys[i], commitment,
                                      self.in_path_indices[i]) } } } : TRUE

VerifyInput(self, vortex, root, nullifier_in, i) ==
    CHOOSE res \in {
        InputFromCommitment(self, root, nullifier_in, i, commitment) :
        commitment \in {
            hash4_var(self.in_amounts[i], public_key, self.in_blindings[i], vortex) :
            public_key \in { hash1_var(self.in_private_keys[i]) } } } : TRUE

\* One iteration of the output loop of generate_constraints
VerifyOutput(self, vortex, commitment_out, i) ==
    LET zero == 0
        amount_is_zero == self.out_amounts[i] = zero
    IN  CHOOSE res \in {
            [expected_commitment |-> expected_commitment,
             commitment_equal |-> CommitmentConstraint(expected_commitment, commitment_out),
             range_check |-> enforce_range_check(self.out_amounts[i], amount_is_zero)] :
            expected_commitment \in {
                hash4_var(self.out_amounts[i], self.out_public_keys[i],
                          self.out_blindings[i], vortex) } } : TRUE

\* The constraint system after generate_constraints: its result (Ok, or the
\* SynthesisError that ended it), the instance assignment (the constant one,
\* then the public inputs in allocation order, each with the name of its
\* namespace), the outcome of every constraint enforced and is_satisfied
\* over them.  A synthesis that fails at the not-equal constraint never
\* reaches the balance constraint.
SynthesizedSystem(self, instance, account, ins, outs) ==
    LET zero == 0
        input_nullifiers == <<instance[4].value, instance[5].value>>
        public_amount == instance[3].value
        sum_ins == add(add(zero, self.in_amounts[1]), self.in_amounts[2])
        sum_outs == add(add(zero, self.out_amounts[1]), self.out_amounts[2])
        not_equal == NullifiersNotEqualConstraint(input_nullifiers[1], input_nullifiers[2])
        balance == BalanceConstraint(sum_ins, public_amount, sum_outs)
    IN  [result |-> not_equal,
         instance_assignment |-> <<[name |-> "one", value |-> 1]>> \o instance,
         account |-> account,
         ins |-> ins,
         outs |-> outs,
         balance |-> IF not_equal = "Ok" THEN balance ELSE NoValue,
         is_satisfied |->
             /\ account
             /\ \A i \in 1..N_INS :
                    ins[i].nullifier_equal /\ ins[i].range_check /\ ins[i].membership_enforced
             /\ \A i \in 1..N_OUTS : outs[i].commitment_equal /\ outs[i].range_check
             /\ (not_equal = "Ok" => balance)]

generate_constraints(self) ==
    LET instance == PublicInputAllocation(self)
        vortex == instance[1].value
        root == instance[2].value
        input_nullifiers == <<instance[4].value, instance[5].value>>
        output_commitment == <<instance[6].value, instance[7].value>>
        hashed_account_secret == instance[8].value
    IN  CHOOSE res \in {
            SynthesizedSystem(self, instance,
                AccountSecretConstraint(expected_hashed_account_secret, hashed_account_secret),
                <<in0, in1>>, <<out0, out1>>) :
            expected_hashed_account_secret \in { hash1_var(self.account_secret) },
            in0 \in { VerifyInput(self, vortex, root, input_nullifiers[1], 1) },
            in1 \in { VerifyInput(self, vortex, root, input_nullifiers[2], 2) },
            out0 \in { VerifyOutput(self, vortex, output_commitment[1], 1) },
            out1 \in { VerifyOutput(self, vortex, output_commitment[2], 2) } } : TRUE

(***************************************************************************)
(* bindings.rs: create_circuit_from_input, prove                           *)
(***************************************************************************)
\* The fields create_circuit_from_input parses before and after the paths,
\* in its order
FieldsBeforePaths ==
    <<"vortex", "root", "public_amount", "input_nullifier_0", "input_nullifier_1",
      "output_commitment_0", "output_commitment_1", "hashed_account_secret",
      "account_secret", "in_private_key_0", "in_private_key_1",
      "in_amount_0", "in_amount_1", "in_blinding_0", "in_blinding_1",
      "in_path_index_0", "in_path_index_1">>

FieldsAfterPaths ==
    <<"out_public_key_0", "out_public_key_1", "out_amount_0", "out_amount_1",
      "out_blinding_0", "out_blinding_1">>

\* bindings.rs parse_merkle_path_binding
parse_merkle_path_binding(path_data) ==
    IF Len(path_data) # MERKLE_TREE_LEVEL
    THEN [ok |-> FALSE, error |-> "InputError"]
    ELSE IF \E i \in 1..Len(path_data) :
                ~parse_fr(path_data[i][1]).ok \/ ~parse_fr(path_data[i][2]).ok
    THEN [ok |-> FALSE, error |-> "ParseError"]
    ELSE [ok |-> TRUE,
          path |-> [i \in 1..MERKLE_TREE_LEVEL |->
                       <<parse_fr(path_data[i][1]).value, parse_fr(path_data[i][2]).value>>]]

\* bindings.rs create_circuit_from_input: the first failing step decides
create_circuit_from_input(in) ==
    LET F(name) == parse_fr(in[name]).value
        path0 == parse_merkle_path_binding(in.merkle_path_0)
        path1 == parse_merkle_path_binding(in.merkle_path_1)
        made == TransactionCircuit_new(
                    [vortex |-> F("vortex"), root |-> F("root"),
                     public_amount |-> F("public_amount"),
                     input_nullifier_0 |-> F("input_nullifier_0"),
                     input_nullifier_1 |-> F("input_nullifier_1"),
                     output_commitment_0 |-> F("output_commitment_0"),
                     output_commitment_1 |-> F("output_commitment_1"),
                     hashed_account_secret |-> F("hashed_account_secret"),
                     account_secret |-> F("account_secret"),
                     in_private_keys |-> <<F("in_private_key_0"), F("in_private_key_1")>>,
                     in_amounts |-> <<F("in_amount_0"), F("in_amount_1")>>,
                     in_blindings |-> <<F("in_blinding_0"), F("in_blinding_1")>>,
                     in_path_indices |-> <<F("in_path_index_0"), F("in_path_index_1")>>,
                     merkle_paths |-> <<path0.path, path1.path>>,
                     out_public_keys |-> <<F("out_public_key_0"), F("out_public_key_1")>>,
                     out_amounts |-> <<F("out_amount_0"), F("out_amount_1")>>,
                     out_blindings |-> <<F("out_blinding_0"), F("out_blinding_1")>>])
    IN  IF \E k \in 1..Len(FieldsBeforePaths) : ~parse_fr(in[FieldsBeforePaths[k]]).ok
        THEN [ok |-> FALSE, error |-> "ParseError"]
        ELSE IF ~path0.ok THEN [ok |-> FALSE, error |-> path0.error]
        ELSE IF ~path1.ok THEN [ok |-> FALSE, error |-> path1.error]
        ELSE IF \E k \in 1..Len(FieldsAfterPaths) : ~parse_fr(in[FieldsAfterPaths[k]]).ok
        THEN [ok |-> FALSE, error |-> "ParseError"]
        ELSE IF ~made.ok THEN [ok |-> FALSE, error |-> "InternalError"]
        ELSE made

\* ProvingKey::deserialize_compressed: a key blob is one byte naming the key
KeyIds == {1, 2}

deserialize_proving_key(bytes) ==
    IF Len(bytes) = 1 /\ bytes[1] \in KeyIds
    THEN [ok |-> TRUE, pk |-> bytes[1]]
    ELSE [ok |-> FALSE, error |-> "KeyError"]

\* The last component of a proof made from a satisfying witness, and the one
\* made from any other witness: two points of the curve whose encodings
\* differ in several bits, as those of two unrelated group elements do.
SoundElement == <<1>>

UnsoundElement == <<6>>

\* Groth16 as an ideal scheme: a proof records the key it was made with, the
\* statement (the public inputs of the synthesized system) and whether the
\* witness satisfied the constraints.
Groth16_proof(pk, system) ==
    [a |-> <<pk>>,
     b |-> SerializeAll([k \in 1..(Len(system.instance_assignment) - 1) |->
                            system.instance_assignment[k + 1].value]),
     c |-> IF system.is_satisfied THEN SoundElement ELSE UnsoundElement]

\* What prove builds from the proof and the circuit (lines 172-204)
ProofOutput(proof, self) ==
    [proof_a |-> proof.a,
     proof_b |-> proof.b,
     proof_c |-> proof.c,
     public_inputs |-> [k \in 1..Len(get_public_inputs(self)) |->
                           to_string(get_public_inputs(self)[k])],
     proof_serialized_hex |-> hex_encode(proof.a \o proof.b \o proof.c),
     public_inputs_serialized_hex |-> hex_encode(get_public_inputs_serialized(self))]

\* Groth16::prove returns the SynthesisError of generate_constraints, which
\* prove maps to ProofError.  It checks is_satisfied in a debug_assert
\* only: on an unsatisfied witness a debug build panics and a release build
\* returns a proof that does not verify.
ProveResults(pk, self, system) ==
    LET done == [kind |-> "Ok", value |-> ProofOutput(Groth16_proof(pk, system), self)]
    IN  IF system.result # "Ok" THEN {[kind |-> "Err", error |-> "ProofError"]}
        ELSE IF system.is_satisfied THEN {done}
        ELSE {done, [kind |-> "Panic"]}

MalformedJson == [malformed |-> TRUE]

\* A prove that decodes its key argument whatever the cache held
ProveDecodesArgument(input_json, proving_key, cached_pk) ==
    LET key == deserialize_proving_key(proving_key)
    IN  IF ~key.ok THEN [ok |-> FALSE, error |-> key.error]
        ELSE IF input_json = MalformedJson THEN [ok |-> FALSE, error |-> "ParseError"]
        ELSE CHOOSE res \in {
                 IF made.ok THEN [ok |-> TRUE, circuit |-> made.circuit, pk |-> key.pk]
                 ELSE [ok |-> FALSE, error |-> made.error] :
                 made \in { create_circuit_from_input(input_json) } } : TRUE

\* bindings.rs prove, up to the proof: the key, the input, the circuit
prove(input_json, proving_key, cached_pk) ==
    LET key == IF cached_pk.some THEN [ok |-> TRUE, pk |-> cached_pk.value]
               ELSE deserialize_proving_key(proving_key)
    IN  IF ~key.ok THEN [ok |-> FALSE, error |-> key.error]
        ELSE IF input_json = MalformedJson THEN [ok |-> FALSE, error |-> "ParseError"]
        ELSE CHOOSE res \in {
                 IF made.ok THEN [ok |-> TRUE, circuit |-> made.circuit, pk |-> key.pk]
                 ELSE [ok |-> FALSE, error |-> made.error] :
                 made \in { create_circuit_from_input(input_json) } } : TRUE

(***************************************************************************)
(* bindings.rs: the proving-key cache, a slot behind a mutex               *)
(***************************************************************************)
\* A read of the slot that takes the key out of it
ReadAndTake(slot, holder) == [snapshot |-> slot, slot |-> None, lock |-> Unlocked]

\* A read of the slot whose guard outlives the block
ReadAndCloneKeepsLock(slot, holder) == [snapshot |-> slot, slot |-> slot, lock |-> holder]

\* prove, lines 149-152: under the lock the slot is cloned; the guard is
\* dropped at the end of the block
ReadAndClone(slot, holder) == [snapshot |-> slot, slot |-> slot, lock |-> Unlocked]

\* An init that empties the slot when the key does not decode
InitClearsOnBadKey(slot, proving_key) ==
    LET key == deserialize_proving_key(proving_key)
    IN  IF ~key.ok
        THEN [slot |-> None, result |-> [kind |-> "Err", error |-> "KeyError"]]
        ELSE [slot |-> Some(key.pk), result |-> [kind |-> "Ok", value |-> TRUE]]

\* init_prover_cache: the slot after the call and what the call returns
init_prover_cache(slot, proving_key) ==
    LET key == deserialize_proving_key(proving_key)
    IN  IF ~key.ok
        THEN [slot |-> slot, result |-> [kind |-> "Err", error |-> "KeyError"]]
        ELSE [slot |-> Some(key.pk), result |-> [kind |-> "Ok", value |-> TRUE]]

\* clear_prover_cache: the slot after the call and what the call returns
clear_prover_cache(slot) == [slot |-> None, result |-> [kind |-> "Value", value |-> TRUE]]

(***************************************************************************)
(* bindings.rs: verify                                                     *)
(***************************************************************************)
UpperHexDigits == <<"A", "B", "C", "D", "E", "F">>

\* The value of a hex digit of either case, or -1
HexValue(ch) ==
    IF \E d \in 1..16 : HexDigits[d] = ch
    THEN (CHOOSE d \in 1..16 : HexDigits[d] = ch) - 1
    ELSE IF \E d \in 1..6 : UpperHexDigits[d] = ch
    THEN (CHOOSE d \in 1..6 : UpperHexDigits[d] = ch) + 9
    ELSE -1

\* hex::decode: an odd length or a character that is no hex digit is an error
hex_decode(str) ==
    IF Len(str) % 2 # 0 \/ \E k \in 1..Len(str) : HexValue(str[k]) < 0
    THEN [ok |-> FALSE, error |-> "ParseError"]
    ELSE [ok |-> TRUE,
          bytes |-> [k \in 1..(Len(str) \div 2) |->
                        16 * HexValue(str[2 * k - 1]) + HexValue(str[2 * k])]]

\* VerifyingKey::deserialize_compressed: a key blob is one byte naming the key
deserialize_verifying_key(bytes) ==
    IF Len(bytes) = 1 /\ bytes[1] \in KeyIds
    THEN [ok |-> TRUE, vk |-> bytes[1]]
    ELSE [ok |-> FALSE, error |-> "KeyError"]

IsSquare(v) == \E y \in 0..(FieldModulus - 1) : (y * y) % FieldModulus = v

\* A compressed G1 point, here one byte: the x coordinate in the low six
\* bits, the infinity flag in bit 6 and the sign flag in bit 7.  It
\* deserializes when the flags are not both set, x is below the modulus and,
\* unless it is the point at infinity, x is on the curve y^2 = x^3 + 3.
G1Valid(byte) ==
    LET x        == byte % 64
        infinity == (byte \div 64) % 2 = 1
        negative == byte \div 128 = 1
    IN  /\ ~(infinity /\ negative)
        /\ x < FieldModulus
        /\ infinity \/ IsSquare((x * x * x + 3) % FieldModulus)

\* The base-field elements of the middle component: FrBytes little-endian
\* bytes each, canonical when below the modulus
RECURSIVE LeValue(_)
LeValue(bytes) == IF bytes = <<>> THEN 0 ELSE Head(bytes) + 256 * LeValue(Tail(bytes))

ChunksCanonical(bytes) ==
    \A k \in 0..((Len(bytes) \div FrBytes) - 1) :
        LeValue(SubSeq(bytes, k * FrBytes + 1, (k + 1) * FrBytes)) < FieldModulus

\* The length of the middle component: the eight public inputs
ProofBLen == Len(get_public_inputs(empty)) * FrBytes

\* Proof::deserialize_compressed: a, b, c read in this order from the front
\* of the bytes; a short input or an invalid encoding is an error, bytes
\* after the proof are not read.
Proof_deserialize_compressed(bytes) ==
    IF Len(bytes) < ProofBLen + 2 THEN [ok |-> FALSE, error |-> "ParseError"]
    ELSE LET a == SubSeq(bytes, 1, 1)
             b == SubSeq(bytes, 2, ProofBLen + 1)
             c == SubSeq(bytes, ProofBLen + 2, ProofBLen + 2)
         IN  IF G1Valid(a[1]) /\ ChunksCanonical(b) /\ G1Valid(c[1])
             THEN [ok |-> TRUE, proof |-> [a |-> a, b |-> b, c |-> c]]
             ELSE [ok |-> FALSE, error |-> "ParseError"]

\* Groth16::verify_proof of the ideal scheme: an error when the number of
\* public inputs is not the one of the key, else whether the proof was made
\* with this key, for this statement, from a satisfying witness.
verify_proof(vk, proof, public_inputs) ==
    IF Len(public_inputs) # Len(get_public_inputs(empty))
    THEN [kind |-> "Err", error |-> "VerifyError"]
    ELSE [kind |-> "Ok",
          value |-> /\ proof.a = <<vk>>
                    /\ proof.b = SerializeAll(public_inputs)
                    /\ proof.c = SoundElement]

\* bindings.rs verify: the first failing step decides
verify(proof_json, verifying_key) ==
    IF proof_json = MalformedJson THEN [kind |-> "Err", error |-> "ParseError"]
    ELSE LET key     == deserialize_verifying_key(verifying_key)
             decoded == hex_decode(proof_json.proof_serialized_hex)
             parsed  == Proof_deserialize_compressed(decoded.bytes)
             inputs  == [k \in 1..Len(proof_json.public_inputs) |->
                            parse_fr(proof_json.public_inputs[k])]
         IN  IF ~key.ok THEN [kind |-> "Err", error |-> key.error]
             ELSE IF ~decoded.ok THEN [kind |-> "Err", error |-> decoded.error]
             ELSE IF ~parsed.ok THEN [kind |-> "Err", error |-> parsed.error]
             ELSE IF \E k \in 1..Len(inputs) : ~inputs[k].ok
             THEN [kind |-> "Err", error |-> "ParseError"]
             ELSE verify_proof(key.vk, parsed.proof,
                               [k \in 1..Len(inputs) |-> inputs[k].value])

(***************************************************************************)
(* wasm/mod.rs: parse_field_element, parse_merkle_path, prove.  A JsValue  *)
(* error is the head of its message.                                       *)
(***************************************************************************)
\* str::trim, for the blank
RECURSIVE TrimStart(_)
TrimStart(str) == IF str # <<>> /\ Head(str) = " " THEN TrimStart(Tail(str)) ELSE str

RECURSIVE TrimEnd(_)
TrimEnd(str) ==
    IF str # <<>> /\ str[Len(str)] = " " THEN TrimEnd(SubSeq(str, 1, Len(str) - 1)) ELSE str

trim(str) == TrimEnd(TrimStart(str))

\* BigUint::parse_bytes(_, 16): as from_str, over hex digits of either case
RECURSIVE HexDigitsValue(_, _)
HexDigitsValue(str, acc) ==
    IF str = <<>> THEN [ok |-> TRUE, value |-> acc]
    ELSE IF Head(str) = "_" THEN HexDigitsValue(Tail(str), acc)
    ELSE IF HexValue(Head(str)) >= 0
         THEN HexDigitsValue(Tail(str), acc * 16 + HexValue(Head(str)))
    ELSE [ok |-> FALSE, value |-> 0]

BigUint_parse_bytes(str) ==
    LET body == IF str # <<>> /\ Head(str) = "+" /\ ~(Len(str) > 1 /\ str[2] = "+")
                THEN Tail(str) ELSE str
    IN  IF body = <<>> \/ Head(body) = "_" THEN [ok |-> FALSE, value |-> 0]
        ELSE HexDigitsValue(body, 0)

\* wasm parse_field_element: trimmed, hex after 0x or 0X, else decimal; the
\* natural is reduced into Fr
parse_field_element(str) ==
    LET t == trim(str)
    IN  IF Len(t) >= 2 /\ t[1] = "0" /\ t[2] \in {"x", "X"}
        THEN LET r == BigUint_parse_bytes(SubSeq(t, 3, Len(t)))
             IN  IF r.ok THEN [ok |-> TRUE, value |-> FrFrom(r.value)]
                 ELSE [ok |-> FALSE, error |-> "Failed to parse hex"]
        ELSE LET r == BigUint_from_str(t)
             IN  IF r.ok THEN [ok |-> TRUE, value |-> FrFrom(r.value)]
                 ELSE [ok |-> FALSE, error |-> "Failed to parse decimal"]

\* wasm parse_merkle_path
parse_merkle_path(path_data) ==
    IF Len(path_data) # MERKLE_TREE_LEVEL
    THEN [ok |-> FALSE, error |-> "Invalid Merkle path length"]
    ELSE LET bad == { k \in 1..(2 * Len(path_data)) :
                        ~parse_field_element(path_data[(k + 1) \div 2][2 - (k % 2)]).ok }
         IN  IF bad # {}
             THEN LET k == CHOOSE m \in bad : \A n \in bad : m <= n
                  IN  [ok |-> FALSE,
                       error |-> parse_field_element(
                                     path_data[(k + 1) \div 2][2 - (k % 2)]).error]
             ELSE [ok |-> TRUE,
                   path |-> [i \in 1..MERKLE_TREE_LEVEL |->
                                <<parse_field_element(path_data[i][1]).value,
                                  parse_field_element(path_data[i][2]).value>>]]

\* The first field of a list that does not parse, or 0
FirstUnparsed(in, fields) ==
    LET bad == { k \in 1..Len(fields) : ~parse_field_element(in[fields[k]]).ok }
    IN  IF bad = {} THEN 0 ELSE CHOOSE m \in bad : \A n \in bad : m <= n

\* wasm prove, lines 106-180: the fields, the paths, the circuit
wasm_circuit_from_input(in) ==
    LET F(name) == parse_field_element(in[name]).value
        before == FirstUnparsed(in, FieldsBeforePaths)
        after  == FirstUnparsed(in, FieldsAfterPaths)
        path0  == parse_merkle_path(in.merkle_path_0)
        path1  == parse_merkle_path(in.merkle_path_1)
        made == TransactionCircuit_new(
                    [vortex |-> F("vortex"), root |-> F("root"),
                     public_amount |-> F("public_amount"),
                     input_nullifier_0 |-> F("input_nullifier_0"),
                     input_nullifier_1 |-> F("input_nullifier_1"),
                     output_commitment_0 |-> F("output_commitment_0"),
                     output_commitment_1 |-> F("output_commitment_1"),
                     hashed_account_secret |-> F("hashed_account_secret"),
                     account_secret |-> F("account_secret"),
                     in_private_keys |-> <<F("in_private_key_0"), F("in_private_key_1")>>,
                     in_amounts |-> <<F("in_amount_0"), F("in_amount_1")>>,
                     in_blindings |-> <<F("in_blinding_0"), F("in_blinding_1")>>,
                     in_path_indices |-> <<F("in_path_index_0"), F("in_path_index_1")>>,
                     merkle_paths |-> <<path0.path, path1.path>>,
                     out_public_keys |-> <<F("out_public_key_0"), F("out_public_key_1")>>,
                     out_amounts |-> <<F("out_amount_0"), F("out_amount_1")>>,
                     out_blindings |-> <<F("out_blinding_0"), F("out_blinding_1")>>])
    IN  IF before # 0
        THEN [ok |-> FALSE,
              error |-> parse_field_element(in[FieldsBeforePaths[before]]).error]
        ELSE IF ~path0.ok THEN [ok |-> FALSE, error |-> path0.error]
        ELSE IF ~path1.ok THEN [ok |-> FALSE, error |-> path1.error]
        ELSE IF after # 0
        THEN [ok |-> FALSE,
              error |-> parse_field_element(in[FieldsAfterPaths[after]]).error]
        ELSE IF ~made.ok THEN [ok |-> FALSE, error |-> "Failed to create circuit"]
        ELSE made

\* wasm prove, up to the circuit: the input, the key, the circuit
wasm_prove(input_json, proving_key_hex) ==
    IF input_json = MalformedJson
    THEN [ok |-> FALSE, error |-> "Failed to parse input JSON"]
    ELSE LET pk_bytes == hex_decode(proving_key_hex)
             key == deserialize_proving_key(pk_bytes.bytes)
         IN  IF ~pk_bytes.ok
             THEN [ok |-> FALSE, error |-> "Failed to decode proving key hex"]
             ELSE IF ~key.ok
             THEN [ok |-> FALSE, error |-> "Failed to deserialize proving key"]
             ELSE CHOOSE res \in {
                      IF made.ok THEN [ok |-> TRUE, circuit |-> made.circuit, pk |-> key.pk]
                      ELSE [ok |-> FALSE, error |-> made.error] :
                      made \in { wasm_circuit_from_input(input_json) } } : TRUE

\* wasm prove, lines 195-252: the constraints are generated and checked
\* before the proof is made; a synthesis error and an unsatisfied system
\* both panic.
WasmProveResult(pk, self, system) ==
    IF system.result # "Ok" \/ ~system.is_satisfied
    THEN [kind |-> "Panic", circuit |-> self]
    ELSE [kind |-> "Ok", value |-> ProofOutput(Groth16_proof(pk, system), self),
          circuit |-> self]

(***************************************************************************)
(* Inputs of prove: transactions a wallet derives with the native hashes   *)
(* and tree, and the same with one field replaced.                         *)
(***************************************************************************)
VORTEX == FrFrom(3)

IN_BLINDING == FrFrom(5)

OUT_PUBLIC_KEYS == <<FrFrom(11), FrFrom(12)>>

OUT_BLINDINGS == <<FrFrom(6), FrFrom(7)>>

ACCOUNT_SECRET == FrFrom(7)

MaxAmount == Pow2(MAX_AMOUNT_BITS) - 1

StringPath(path) == [i \in 1..Len(path) |-> <<to_string(path[i][1]), to_string(path[i][2])>>]

Nullifier(sk, commitment, idx) == hash3(commitment, idx, hash3(sk, commitment, idx))

ScenarioFromTree(sk, amt, idx, pa, out1, acct, c0, c1, t) ==
    LET total == add(add(amt[1], amt[2]), pa)
        out_amt == <<FrFrom(total + FieldModulus - out1), out1>>
    IN  [vortex |-> to_string(VORTEX),
         root |-> to_string(t.root),
         public_amount |-> to_string(pa),
         input_nullifier_0 |-> to_string(Nullifier(sk[1], c0, idx[1])),
         input_nullifier_1 |-> to_string(Nullifier(sk[2], c1, idx[2])),
         output_commitment_0 |->
             to_string(hash4(out_amt[1], OUT_PUBLIC_KEYS[1], OUT_BLINDINGS[1], VORTEX)),
         output_commitment_1 |->
             to_string(hash4(out_amt[2], OUT_PUBLIC_KEYS[2], OUT_BLINDINGS[2], VORTEX)),
         hashed_account_secret |-> to_string(IF acct THEN hash1(ACCOUNT_SECRET) ELSE 0),
         account_secret |-> to_string(IF acct THEN ACCOUNT_SECRET ELSE 0),
         in_private_key_0 |-> to_string(sk[1]),
         in_private_key_1 |-> to_string(sk[2]),
         in_amount_0 |-> to_string(amt[1]),
         in_amount_1 |-> to_string(amt[2]),
         in_blinding_0 |-> to_string(IN_BLINDING),
         in_blinding_1 |-> to_string(IN_BLINDING),
         in_path_index_0 |-> to_string(idx[1]),
         in_path_index_1 |-> to_string(idx[2]),
         merkle_path_0 |-> StringPath(generate_membership_proof(MERKLE_TREE_LEVEL, t, 0).path),
         merkle_path_1 |-> StringPath(generate_membership_proof(MERKLE_TREE_LEVEL, t, 1).path),
         out_public_key_0 |-> to_string(OUT_PUBLIC_KEYS[1]),
         out_public_key_1 |-> to_string(OUT_PUBLIC_KEYS[2]),
         out_amount_0 |-> to_string(out_amt[1]),
         out_amount_1 |-> to_string(out_amt[2]),
         out_blinding_0 |-> to_string(OUT_BLINDINGS[1]),
         out_blinding_1 |-> to_string(OUT_BLINDINGS[2])]

\* The two input notes are the first pair of the tree, at leaf indices 0, 1
Scenario(sk, amt, idx, pa, out1, acct) ==
    CHOOSE res \in {
        ScenarioFromTree(sk, amt, idx, pa, out1, acct, cc[1], cc[2], t) :
        cc \in { <<c0, c1>> :
                 c0 \in { hash4(amt[1], hash1(sk[1]), IN_BLINDING, VORTEX) },
                 c1 \in { hash4(amt[2], hash1(sk[2]), IN_BLINDING, VORTEX) } },
        t \in { new(MERKLE_TREE_LEVEL,
                    <<<<hash4(amt[1], hash1(sk[1]), IN_BLINDING, VORTEX),
                        hash4(amt[2], hash1(sk[2]), IN_BLINDING, VORTEX)>>>>).tree } } : TRUE

AmountScenarios ==
    { Scenario(<<1, 2>>, <<a0, a1>>, <<0, 1>>, pa, out1, FALSE) :
      a0 \in {0, 1, MaxAmount, MaxAmount + 1},
      a1 \in {0, 1, MaxAmount, MaxAmount + 1},
      pa \in {0, 1, FieldModulus - 1},
      out1 \in {0, 1, MaxAmount} }

IdentityScenarios ==
    { Scenario(sk, amt, idx, 0, 0, acct) :
      sk \in {<<1, 2>>, <<1, 1>>},
      amt \in {<<0, 0>>, <<1, 1>>, <<1, 0>>, <<0, 1>>},
      idx \in {<<0, 1>>, <<1, 0>>, <<1, 1>>, <<0, 0>>, <<2, 3>>},
      acct \in BOOLEAN }

CoreScenarios ==
    { Scenario(<<1, 2>>, <<1, 1>>, <<0, 1>>, 0, 0, TRUE),
      Scenario(<<1, 2>>, <<0, 0>>, <<0, 1>>, 0, 0, FALSE),
      Scenario(<<1, 2>>, <<1, 0>>, <<0, 1>>, 0, 0, FALSE) }

ScalarFields ==
    { FieldsBeforePaths[k] : k \in 1..Len(FieldsBeforePaths) }
    \cup { FieldsAfterPaths[k] : k \in 1..Len(FieldsAfterPaths) }

ReplacementStrings ==
    { to_string(n) : n \in {0, 1, 2, MaxAmount, MaxAmount + 1, Pow2(MERKLE_TREE_LEVEL),
                            FieldModulus - 1, FieldModulus, FieldModulus + 1} }
    \cup { <<>>, <<"x">>, <<"-", "1">>, <<"+", "1">>, <<"0", "0", "1">>, <<"1", "_", "0">> }

ReplacementPaths ==
    { <<>>,
      [i \in 1..MERKLE_TREE_LEVEL |-> <<to_string(0), to_string(0)>>],
      [i \in 1..MERKLE_TREE_LEVEL |-> <<to_string(1), to_string(2)>>],
      [i \in 1..MERKLE_TREE_LEVEL |-> <<to_string(1), <<"x">>>>],
      [i \in 1..(MERKLE_TREE_LEVEL + 1) |-> <<to_string(0), to_string(0)>>] }

ReplacedScenarios ==
    { [base EXCEPT ![f] = str] :
      base \in CoreScenarios, f \in ScalarFields, str \in ReplacementStrings }
    \cup { [base EXCEPT ![f] = path] :
           base \in CoreScenarios, f \in {"merkle_path_0", "merkle_path_1"},
           path \in ReplacementPaths }

ProofInputs ==
    AmountScenarios \cup IdentityScenarios \cup ReplacedScenarios \cup {MalformedJson}

ProvingKeyBlobs == {<<1>>, <<>>}

(***************************************************************************)
(* The prover: one call of prove on one input                              *)
(***************************************************************************)
InitCircuit ==
    /\ input \in ProofInputs
    /\ cache = None
    /\ circuit = NoValue
    /\ cs = NoValue
    /\ output = NoValue
    /\ tree = NoValue
    /\ moveRoot = NoValue
    /\ pairs = <<>>
    /\ lastInsert = NoValue
    /\ merkleProof = NoValue
    /\ verified = NoValue
    /\ gadget = NoValue
    /\ verdict = NoValue
    /\ wasmOutput = NoValue
    /\ lock = Unlocked
    /\ calls = NoValue
    /\ hashed = NoValue
    /\ indexFound = NoValue

\* bindings.rs prove: the whole call, the synthesis inside Groth16::prove
\* included
Prove(proving_key) ==
    /\ output = NoValue
    /\ \E started \in { prove(input, proving_key, cache) } :
           IF ~started.ok
           THEN /\ circuit' = NoValue
                /\ cs' = NoValue
                /\ output' = [kind |-> "Err", error |-> started.error]
           ELSE \E system \in { generate_constraints(started.circuit) } :
                    /\ circuit' = started.circuit
                    /\ cs' = system
                    /\ output' \in ProveResults(started.pk, started.circuit, system)
    /\ UNCHANGED <<input, cache, tree, moveRoot, pairs, lastInsert,
                   merkleProof, verified, gadget, verdict, wasmOutput,
                   lock, calls, hashed, indexFound>>

NextCircuit == \E proving_key \in ProvingKeyBlobs : Prove(proving_key)

SpecCircuit == InitCircuit /\ [][NextCircuit]_vars

(***************************************************************************)
(* The prover and the verifier: prove, then verify on the proof object or  *)
(* on the proof object with one part replaced                              *)
(***************************************************************************)
\* Every field zero, both paths all-zero
AllZeroInput ==
    [f \in ScalarFields \cup {"merkle_path_0", "merkle_path_1"} |->
        IF f \in ScalarFields THEN to_string(0)
        ELSE [i \in 1..MERKLE_TREE_LEVEL |-> <<to_string(0), to_string(0)>>]]

\* A transaction whose first input amount is out of range
OutOfRangeScenario == Scenario(<<1, 2>>, <<MaxAmount + 1, 0>>, <<0, 1>>, 0, 0, FALSE)

VerifyInputs == CoreScenarios \cup {AllZeroInput, OutOfRangeScenario}

VerifyingKeyBlobs == {<<1>>, <<2>>, <<>>}

\* The values a byte is replaced by: all bits flipped, the lowest bit
\* flipped, bit 6 flipped, bit 7 flipped
FlipValues(byte) ==
    { 255 - byte,
      IF byte % 2 = 0 THEN byte + 1 ELSE byte - 1,
      IF (byte \div 64) % 2 = 0 THEN byte + 64 ELSE byte - 64,
      IF byte \div 128 = 0 THEN byte + 128 ELSE byte - 128 }

\* The proof object with one byte of the serialized proof replaced
FlippedProofs(proof_output) ==
    LET bytes == hex_decode(proof_output.proof_serialized_hex).bytes
    IN  UNION { { [proof_output EXCEPT
                      !.proof_serialized_hex = hex_encode([bytes EXCEPT ![k] = v])] :
                  v \in FlipValues(bytes[k]) } : k \in 1..Len(bytes) }
        \cup { [proof_output EXCEPT !.proof_serialized_hex = [@ EXCEPT ![1] = "g"]] }

\* Strings other than a canonical decimal: another value, the same value
\* with a leading zero, with a sign, with the modulus added, and no number
OtherStrings(str) ==
    LET v == parse_fr(str).value
    IN  { to_string((v + 1) % FieldModulus), <<"0">> \o str, <<"+">> \o str,
          to_string(v + FieldModulus), <<"x">> }

\* The proof object with one entry of public_inputs replaced
ReplacedPublicInputs(proof_output) ==
    UNION { { [proof_output EXCEPT !.public_inputs[k] = str] :
              str \in OtherStrings(proof_output.public_inputs[k]) } :
            k \in 1..Len(proof_output.public_inputs) }

ProofObjects(proof_output) ==
    {proof_output, MalformedJson}
    \cup FlippedProofs(proof_output) \cup ReplacedPublicInputs(proof_output)

InitVerify ==
    /\ input \in VerifyInputs
    /\ cache = None
    /\ circuit = NoValue
    /\ cs = NoValue
    /\ output = NoValue
    /\ verdict = NoValue
    /\ wasmOutput = NoValue
    /\ lock = Unlocked
    /\ calls = NoValue
    /\ hashed = NoValue
    /\ indexFound = NoValue
    /\ tree = NoValue
    /\ moveRoot = NoValue
    /\ pairs = <<>>
    /\ lastInsert = NoValue
    /\ merkleProof = NoValue
    /\ verified = NoValue
    /\ gadget = NoValue

\* bindings.rs verify: the whole call
Verify(proof_json, verifying_key) ==
    /\ verdict = NoValue
    /\ verdict' = [proof_json |-> proof_json,
                   verifying_key |-> verifying_key,
                   result |-> verify(proof_json, verifying_key)]
    /\ UNCHANGED <<input, cache, circuit, cs, output, wasmOutput,
                   tree, moveRoot, pairs, lastInsert, merkleProof, verified, gadget,
                   lock, calls, hashed, indexFound>>

\* verify on what prove returned, as it is or with one part replaced
VerifyProofObject ==
    /\ output # NoValue
    /\ output.kind = "Ok"
    /\ \E proof_json \in ProofObjects(output.value), verifying_key \in VerifyingKeyBlobs :
           Verify(proof_json, verifying_key)

NextVerify ==
    \/ \E proving_key \in ProvingKeyBlobs : Prove(proving_key)
    \/ VerifyProofObject

SpecVerify == InitVerify /\ [][NextVerify]_vars

(***************************************************************************)
(* The two provers on the same input: one field of a satisfied             *)
(* transaction replaced by a string                                        *)
(***************************************************************************)
ParsedFields == {"vortex", "in_amount_0", "out_blinding_1"}

\* Decimal and hex strings of values below, at and above the modulus, signed,
\* padded, separated and blank-wrapped numbers, and strings that are no number
ParsedStrings ==
    { to_string(n) : n \in {0, 1, FieldModulus - 1, FieldModulus, FieldModulus + 1} }
    \cup { <<"0", "x">> \o str :
           str \in { <<"1">>, <<"3", "c">>, <<"3", "D">>, <<"3", "e">>, <<>>, <<"g">> } }
    \cup { <<"0", "X", "1">>, <<" ", "1", " ">>, <<"0", "1">>, <<"+", "1">>, <<"-", "1">>,
           <<"1", "_", "0">>, <<"1", "e", "1">>, <<"x">>, <<>> }

ParsedInputs ==
    { [Scenario(<<1, 2>>, <<1, 1>>, <<0, 1>>, 0, 0, TRUE) EXCEPT ![f] = str] :
      f \in ParsedFields, str \in ParsedStrings }

WasmKeyHexes == { <<"0", "1">>, <<"0">>, <<"0", "0">> }

InitParse ==
    /\ input \in ParsedInputs
    /\ cache = None
    /\ circuit = NoValue
    /\ cs = NoValue
    /\ output = NoValue
    /\ verdict = NoValue
    /\ wasmOutput = NoValue
    /\ lock = Unlocked
    /\ calls = NoValue
    /\ hashed = NoValue
    /\ indexFound = NoValue
    /\ tree = NoValue
    /\ moveRoot = NoValue
    /\ pairs = <<>>
    /\ lastInsert = NoValue
    /\ merkleProof = NoValue
    /\ verified = NoValue
    /\ gadget = NoValue

\* wasm/mod.rs prove: the whole call
ProveWasm(proving_key_hex) ==
    /\ wasmOutput = NoValue
    /\ \E started \in { wasm_prove(input, proving_key_hex) } :
           IF ~started.ok
           THEN wasmOutput' = [kind |-> "Err", error |-> started.error]
           ELSE \E system \in { generate_constraints(started.circuit) } :
                    wasmOutput' = WasmProveResult(started.pk, started.circuit, system)
    /\ UNCHANGED <<input, cache, circuit, cs, output, verdict,
                   tree, moveRoot, pairs, lastInsert, merkleProof, verified, gadget,
                   lock, calls, hashed, indexFound>>

NextParse ==
    \/ \E proving_key \in ProvingKeyBlobs : Prove(proving_key)
    \/ \E proving_key_hex \in WasmKeyHexes : ProveWasm(proving_key_hex)

SpecParse == InitParse /\ [][NextParse]_vars

(***************************************************************************)
(* Poseidon: one tuple hashed natively and by the gadget                   *)
(***************************************************************************)
\* Every 1-tuple; 2-tuples, 3-tuples and 4-tuples over values at both ends
\* of the field
PoseidonInputs ==
    { <<x>> : x \in Fr }
    \cup { <<x, y>> : x \in {0, 1, 2, FieldModulus - 1}, y \in {0, 1, 2, FieldModulus - 1} }
    \cup { <<x, y, z>> : x \in {0, 1}, y \in {1, 2, 3}, z \in {0, 3, FieldModulus - 1} }
    \cup { <<x, y, z, w>> : x \in {0, 1}, y \in {0, 2}, z \in {0, 3},
                            w \in {0, 4, FieldModulus - 1} }

InitPoseidon ==
    /\ hashed \in { [inputs |-> inputs, native |-> NoValue, var |-> NoValue] :
                     inputs \in PoseidonInputs }
    /\ input = NoValue
    /\ cache = None
    /\ lock = Unlocked
    /\ calls = NoValue
    /\ circuit = NoValue
    /\ cs = NoValue
    /\ output = NoValue
    /\ verdict = NoValue
    /\ wasmOutput = NoValue
    /\ tree = NoValue
    /\ moveRoot = NoValue
    /\ pairs = <<>>
    /\ lastInsert = NoValue
    /\ merkleProof = NoValue
    /\ verified = NoValue
    /\ gadget = NoValue
    /\ indexFound = NoValue

PoseidonFrame ==
    UNCHANGED <<input, cache, lock, calls, circuit, cs, output, verdict, wasmOutput, tree,
                moveRoot, pairs, lastInsert, merkleProof, verified, gadget, indexFound>>

\* PoseidonOptimized::hash on the tuple
HashNative ==
    /\ hashed # NoValue
    /\ hashed.native = NoValue
    /\ hashed' = [hashed EXCEPT !.native = [value |-> hash(hashed.inputs)]]
    /\ PoseidonFrame

\* PoseidonOptimizedVar::hash on witnesses holding the tuple, in a fresh
\* constraint system
HashVar ==
    /\ hashed # NoValue
    /\ hashed.var = NoValue
    /\ hashed' = [hashed EXCEPT !.var =
                      [value |-> hash_var(hashed.inputs),
                       is_satisfied |->
                           ConstraintsSatisfied(hash_var_constraints(hashed.inputs))]]
    /\ PoseidonFrame

NextPoseidon == HashNative \/ HashVar

SpecPoseidon == InitPoseidon /\ [][NextPoseidon]_vars

(***************************************************************************)
(* The cache: threads calling prove, init_prover_cache and                 *)
(* clear_prover_cache, each call a sequence of steps around the mutex      *)
(***************************************************************************)
NumThreads == 2

MaxCalls == 2

Threads == 1..NumThreads

CacheKeyBlobs == {<<1>>, <<2>>, <<>>}

CacheInputs == {Scenario(<<1, 2>>, <<1, 1>>, <<0, 1>>, 0, 0, TRUE)}

\* A thread outside any call
Idle == [op |-> "none", pc |-> "returned", arg |-> <<>>, snapshot |-> NoValue,
         result |-> NoValue, n |-> 0]

InitCache ==
    /\ input \in CacheInputs
    /\ cache = None
    /\ lock = Unlocked
    /\ calls = [t \in Threads |-> Idle]
    /\ circuit = NoValue
    /\ cs = NoValue
    /\ output = NoValue
    /\ verdict = NoValue
    /\ wasmOutput = NoValue
    /\ tree = NoValue
    /\ moveRoot = NoValue
    /\ pairs = <<>>
    /\ lastInsert = NoValue
    /\ merkleProof = NoValue
    /\ verified = NoValue
    /\ gadget = NoValue
    /\ hashed = NoValue
    /\ indexFound = NoValue

CacheFrame ==
    UNCHANGED <<input, circuit, cs, output, verdict, wasmOutput, tree, moveRoot, pairs,
                lastInsert, merkleProof, verified, gadget, hashed, indexFound>>

\* A thread enters one of the three functions
Call(t, op, arg) ==
    /\ calls[t].pc = "returned"
    /\ calls[t].n < MaxCalls
    /\ calls' = [calls EXCEPT ![t] = [op |-> op, pc |-> "entered", arg |-> arg,
                                      snapshot |-> NoValue, result |-> NoValue,
                                      n |-> calls[t].n + 1]]
    /\ UNCHANGED <<cache, lock>>
    /\ CacheFrame

\* PROVING_KEY_CACHE.lock() in any of the three functions (init_prover_cache
\* has decoded its key before)
Lock(t) ==
    /\ calls[t].pc = "entered"
    /\ calls[t].op = "init_prover_cache" => deserialize_proving_key(calls[t].arg).ok
    /\ lock = Unlocked
    /\ lock' = t
    /\ calls' = [calls EXCEPT ![t].pc = "locked"]
    /\ UNCHANGED cache
    /\ CacheFrame

\* prove, lines 149-152: the clone of the slot and the end of the block
ProveClone(t) ==
    /\ calls[t].op = "prove"
    /\ calls[t].pc = "locked"
    /\ \E read \in { ReadAndClone(cache, t) } :
           /\ cache' = read.slot
           /\ lock' = read.lock
           /\ calls' = [calls EXCEPT ![t].pc = "cloned", ![t].snapshot = read.snapshot]
    /\ CacheFrame

\* prove, lines 154-208: the key, the input, the circuit, the proof
ProveWork(t) ==
    /\ calls[t].op = "prove"
    /\ calls[t].pc = "cloned"
    /\ \E started \in { prove(input, calls[t].arg, calls[t].snapshot) } :
           \E result \in
               IF ~started.ok THEN {[kind |-> "Err", error |-> started.error]}
               ELSE ProveResults(started.pk, started.circuit,
                                 generate_constraints(started.circuit)) :
               calls' = [calls EXCEPT ![t].pc = "returned", ![t].result = result]
    /\ UNCHANGED <<cache, lock>>
    /\ CacheFrame

\* init_prover_cache with bytes that do not decode: the error is returned
\* before the lock is taken
InitFail(t) ==
    /\ calls[t].op = "init_prover_cache"
    /\ calls[t].pc = "entered"
    /\ ~deserialize_proving_key(calls[t].arg).ok
    /\ \E done \in { init_prover_cache(cache, calls[t].arg) } :
           /\ cache' = done.slot
           /\ calls' = [calls EXCEPT ![t].pc = "returned", ![t].result = done.result]
    /\ UNCHANGED lock
    /\ CacheFrame

\* init_prover_cache, lines 101-103: the store, the return, the guard dropped
InitStore(t) ==
    /\ calls[t].op = "init_prover_cache"
    /\ calls[t].pc = "locked"
    /\ \E done \in { init_prover_cache(cache, calls[t].arg) } :
           /\ cache' = done.slot
           /\ calls' = [calls EXCEPT ![t].pc = "returned", ![t].result = done.result]
    /\ lock' = Unlocked
    /\ CacheFrame

\* clear_prover_cache, lines 108-110
ClearStore(t) ==
    /\ calls[t].op = "clear_prover_cache"
    /\ calls[t].pc = "locked"
    /\ \E done \in { clear_prover_cache(cache) } :
           /\ cache' = done.slot
           /\ calls' = [calls EXCEPT ![t].pc = "returned", ![t].result = done.result]
    /\ lock' = Unlocked
    /\ CacheFrame

NextCache ==
    \E t \in Threads :
        \/ \E arg \in ProvingKeyBlobs : Call(t, "prove", arg)
        \/ \E arg \in CacheKeyBlobs : Call(t, "init_prover_cache", arg)
        \/ Call(t, "clear_prover_cache", <<>>)
        \/ Lock(t)
        \/ ProveClone(t)
        \/ ProveWork(t)
        \/ InitFail(t)
        \/ InitStore(t)
        \/ ClearStore(t)

SpecCache == InitCache /\ [][NextCache]_vars

(***************************************************************************)
(* The tree: pairs inserted one after the other                            *)
(***************************************************************************)
LeafValues == {1, 2}

InitTree ==
    /\ tree = new_empty(TreeHeight)
    /\ pairs = <<>>
    /\ moveRoot = move_style_root(TreeHeight, <<>>)
    /\ lastInsert = NoValue
    /\ input = NoValue
    /\ cache = None
    /\ circuit = NoValue
    /\ cs = NoValue
    /\ output = NoValue
    /\ merkleProof = NoValue
    /\ verified = NoValue
    /\ gadget = NoValue
    /\ verdict = NoValue
    /\ wasmOutput = NoValue
    /\ lock = Unlocked
    /\ calls = NoValue
    /\ hashed = NoValue
    /\ indexFound = NoValue

\* SparseMerkleTree::insert_pair; the reference root is rebuilt from scratch
\* over the pairs inserted so far
InsertPair(leaf1, leaf2) ==
    /\ \E r \in { insert_pair(TreeHeight, tree, leaf1, leaf2) } :
           /\ lastInsert' = [ok |-> r.ok]
           /\ tree' = r.tree
           /\ pairs' = IF r.ok THEN Append(pairs, <<leaf1, leaf2>>) ELSE pairs
           /\ moveRoot' = IF r.ok THEN move_style_root(TreeHeight, pairs') ELSE moveRoot
    /\ UNCHANGED <<input, cache, circuit, cs, output,
                   merkleProof, verified, gadget, verdict, wasmOutput,
                   lock, calls, hashed, indexFound>>

\* SparseMerkleTree::insert
Insert(leaf) == InsertPair(leaf, At(empty_hashes(TreeHeight), 0))

NextTree ==
    \/ \E leaf1, leaf2 \in LeafValues : InsertPair(leaf1, leaf2)
    \/ \E leaf \in LeafValues : Insert(leaf)

SpecTree == InitTree /\ [][NextTree]_vars

(***************************************************************************)
(* The tree under all four insertion calls                                 *)
(***************************************************************************)
AppendPairs == {<<1, 2>>, <<2, 2>>}

AppendBatches == {<<>>, <<<<1, 2>>, <<2, 1>>>>, <<<<1, 1>>, <<1, 2>>, <<2, 2>>>>}

AppendLeafLists ==
    {<<>>, <<1>>, <<2, 1>>, <<2, 1, 1>>, <<1, 1, 2, 2>>, <<1, 2, 1, 2, 1, 2>>}

\* The leaves of a list of pairs, in order
RECURSIVE PairsOf(_)
PairsOf(leaves) ==
    IF Len(leaves) < 2 THEN <<>>
    ELSE <<<<leaves[1], leaves[2]>>>> \o PairsOf(SubSeq(leaves, 3, Len(leaves)))

\* What a call that ran insert_pair several times leaves behind: the tree,
\* the pairs it took in and whether it ended with Ok
AfterInsertions(op, r) ==
    /\ lastInsert' = [ok |-> r.ok, op |-> op]
    /\ tree' = r.tree
    /\ pairs' = PairsOf(r.tree.leaves)
    /\ moveRoot' = IF r.tree = tree THEN moveRoot
                   ELSE move_style_root(TreeHeight, pairs')
    /\ UNCHANGED <<input, cache, circuit, cs, output,
                   merkleProof, verified, gadget, verdict, wasmOutput,
                   lock, calls, hashed, indexFound>>

\* SparseMerkleTree::insert_batch
InsertBatch(leaf_pairs) ==
    \E r \in { insert_batch(TreeHeight, tree, leaf_pairs) } :
        AfterInsertions("insert_batch", r)

\* SparseMerkleTree::bulk_insert
BulkInsert(leaves) ==
    \E r \in { bulk_insert(TreeHeight, tree, leaves) } :
        AfterInsertions("bulk_insert", r)

NextAppend ==
    \/ \E pr \in AppendPairs : InsertPair(pr[1], pr[2])
    \/ \E leaf \in {1} : Insert(leaf)
    \/ \E leaf_pairs \in AppendBatches : InsertBatch(leaf_pairs)
    \/ \E leaves \in AppendLeafLists : BulkInsert(leaves)

SpecAppend == InitTree /\ [][NextAppend]_vars

(***************************************************************************)
(* Membership proofs: one tree, one path, checked natively and in circuit  *)
(***************************************************************************)
\* The leaf pairs the trees are built from: equal leaves, distinct leaves
\* and a leaf paired with the empty leaf (what insert does)
ProofLeafPairs == {<<1, 1>>, <<1, 2>>, <<2, ZERO_VALUE>>}

PairSequences == UNION { [1..n -> ProofLeafPairs] : n \in 0..Pow2(TreeHeight - 1) }

\* Paths that no tree generated, with the running hash on either side
SuppliedPaths ==
    { <<<<1, 2>>, <<hash2(1, 2), 5>>, <<7, 9>>>>,
      <<<<2, 2>>, <<3, hash2(2, 2)>>, <<4, 4>>>>,
      EmptyPath(TreeHeight) }

SuppliedProofs ==
    { [generated |-> FALSE, leaf |-> leaf, path |-> path] :
      leaf \in {1, 2}, path \in SuppliedPaths }

InitProof ==
    /\ pairs \in PairSequences
    /\ tree = new(TreeHeight, pairs).tree
    /\ merkleProof \in {NoValue} \cup SuppliedProofs
    /\ verified = NoValue
    /\ gadget = NoValue
    /\ moveRoot = NoValue
    /\ lastInsert = NoValue
    /\ input = NoValue
    /\ cache = None
    /\ circuit = NoValue
    /\ cs = NoValue
    /\ output = NoValue
    /\ verdict = NoValue
    /\ wasmOutput = NoValue
    /\ lock = Unlocked
    /\ calls = NoValue
    /\ hashed = NoValue
    /\ indexFound = NoValue

\* SparseMerkleTree::generate_membership_proof(index)
GenerateMembershipProof(index) ==
    /\ merkleProof = NoValue
    /\ \E r \in { generate_membership_proof(TreeHeight, tree, index) } :
           merkleProof' =
               IF r.ok
               THEN [generated |-> TRUE, index |-> index, ok |-> TRUE,
                     leaf |-> At(tree.leaves, index), path |-> r.path]
               ELSE [generated |-> TRUE, index |-> index, ok |-> FALSE]
    /\ UNCHANGED <<input, cache, circuit, cs, output, tree, moveRoot, pairs, lastInsert,
                   verified, gadget, verdict, wasmOutput,
                   lock, calls, hashed, indexFound>>

\* SparseMerkleTree::verify_path(index, path) on the generated path
VerifyPath ==
    /\ merkleProof # NoValue
    /\ merkleProof.generated
    /\ merkleProof.ok
    /\ verified = NoValue
    /\ verified' = [result |-> verify_path(TreeHeight, tree, merkleProof.index,
                                           merkleProof.path)]
    /\ UNCHANGED <<input, cache, circuit, cs, output, tree, moveRoot, pairs, lastInsert,
                   merkleProof, gadget, verdict, wasmOutput,
                   lock, calls, hashed, indexFound>>

\* PathVar::check_membership(root, leaf) synthesized with the tree's root, the
\* leaf and the path as variables: the root the gadget computes and its
\* Boolean
CheckMembershipVar ==
    /\ merkleProof # NoValue
    /\ merkleProof.generated => merkleProof.ok
    /\ gadget = NoValue
    /\ \E computed_root \in { root_hash(merkleProof.path, merkleProof.leaf) } :
           gadget' = [computed_root |-> computed_root,
                      is_member |-> (tree.root = computed_root)]
    /\ UNCHANGED <<input, cache, circuit, cs, output, tree, moveRoot, pairs, lastInsert,
                   merkleProof, verified, verdict, wasmOutput,
                   lock, calls, hashed, indexFound>>

NextProof ==
    \/ \E index \in 0..Pow2(TreeHeight) : GenerateMembershipProof(index)
    \/ VerifyPath
    \/ CheckMembershipVar

SpecProof == InitProof /\ [][NextProof]_vars

(***************************************************************************)
(* The tree and get_index: a path, generated or supplied, decoded to the   *)
(* index of its leaf under the tree's root                                 *)
(***************************************************************************)
\* Path::get_index(root(), leaf, path)
GetIndex ==
    /\ merkleProof # NoValue
    /\ merkleProof.generated => merkleProof.ok
    /\ indexFound = NoValue
    /\ indexFound' = get_index(merkleProof.path, tree.root, merkleProof.leaf)
    /\ UNCHANGED <<input, cache, circuit, cs, output, tree, moveRoot, pairs, lastInsert,
                   merkleProof, verified, gadget, verdict, wasmOutput,
                   lock, calls, hashed>>

NextIndex ==
    \/ \E index \in 0..Pow2(TreeHeight) : GenerateMembershipProof(index)
    \/ GetIndex

SpecIndex == InitProof /\ [][NextIndex]_vars

(***************************************************************************)
(* Properties of the circuit, checked on SpecCircuit                       *)
(***************************************************************************)
Synthesized == cs # NoValue

\* generate_constraints returned Ok and every constraint holds
Satisfied == cs # NoValue /\ cs.result = "Ok" /\ cs.is_satisfied

\* The public inputs of the synthesized system, without the constant one
InstanceValues == [k \in 1..(Len(cs.instance_assignment) - 1) |->
                      cs.instance_assignment[k + 1].value]

InstanceNames == [k \in 1..(Len(cs.instance_assignment) - 1) |->
                     cs.instance_assignment[k + 1].name]

InputNullifier(i) == IF i = 1 THEN circuit.input_nullifier_0 ELSE circuit.input_nullifier_1

OutputCommitment(j) ==
    IF j = 1 THEN circuit.output_commitment_0 ELSE circuit.output_commitment_1

\* The commitment of input i, by the native Poseidon
NativeCommitment(i) ==
    hash4(circuit.in_amounts[i], hash1(circuit.in_private_keys[i]),
          circuit.in_blindings[i], circuit.vortex)

\* Every constraint enforced before the not-equal one is satisfied
AllBeforeNotEqual ==
    /\ cs.account
    /\ \A i \in 1..N_INS :
           cs.ins[i].nullifier_equal /\ cs.ins[i].range_check /\ cs.ins[i].membership_enforced
    /\ \A j \in 1..N_OUTS : cs.outs[j].commitment_equal /\ cs.outs[j].range_check

\* C1: the constraints are satisfied only if in_amount_0 + in_amount_1 +
\* public_amount = out_amount_0 + out_amount_1 in the field; a witness in
\* which the two sides differ is unsatisfied, whatever its other values.
C1_BalanceEnforced ==
    Synthesized =>
        LET sides_equal ==
                add(add(circuit.in_amounts[1], circuit.in_amounts[2]), circuit.public_amount)
                    = add(circuit.out_amounts[1], circuit.out_amounts[2])
        IN  /\ cs.result = "Ok" => (cs.balance <=> sides_equal)
            /\ Satisfied => sides_equal

\* A satisfied transaction whose balance holds only modulo the field order
C1_Witness ==
    /\ Satisfied
    /\ output.kind = "Ok"
    /\ circuit.public_amount = FieldModulus - 1
    /\ circuit.in_amounts[1] # 0
    /\ circuit.in_amounts[2] # 0

C3_EqualNullifiersRejected ==
    (Synthesized /\ circuit.input_nullifier_0 = circuit.input_nullifier_1) =>
        /\ cs.result # "Ok"
        /\ ~Satisfied
        /\ output.kind # "Ok"

\* Equal nullifiers, both amounts zero, nothing else wrong
C3_Witness ==
    /\ Synthesized
    /\ circuit.input_nullifier_0 = circuit.input_nullifier_1
    /\ circuit.in_amounts = <<0, 0>>
    /\ AllBeforeNotEqual
    /\ add(add(circuit.in_amounts[1], circuit.in_amounts[2]), circuit.public_amount)
           = add(circuit.out_amounts[1], circuit.out_amounts[2])
    /\ output = [kind |-> "Err", error |-> "ProofError"]

\* C4: in every satisfied witness, the path index of an input with a
\* non-zero amount is the leaf index its Merkle path encodes under the root.
C4_PathIndexIsLeafIndex ==
    Satisfied =>
        \A i \in 1..N_INS :
            circuit.in_amounts[i] # 0 =>
                \E found \in { get_index(circuit.merkle_paths[i], circuit.root,
                                         NativeCommitment(i)) } :
                    found.ok /\ circuit.in_path_indices[i] = found.index

\* C5: the constraints are satisfied only if each of the two input and the
\* two output amounts is below 2^MAX_AMOUNT_BITS as an integer; the range
\* check passes exactly for those amounts, zero included.
C5_AmountsInRange ==
    Synthesized =>
        /\ \A i \in 1..N_INS :
               cs.ins[i].range_check <=> circuit.in_amounts[i] < Pow2(MAX_AMOUNT_BITS)
        /\ \A j \in 1..N_OUTS :
               cs.outs[j].range_check <=> circuit.out_amounts[j] < Pow2(MAX_AMOUNT_BITS)
        /\ Satisfied =>
               /\ \A i \in 1..N_INS : circuit.in_amounts[i] < Pow2(MAX_AMOUNT_BITS)
               /\ \A j \in 1..N_OUTS : circuit.out_amounts[j] < Pow2(MAX_AMOUNT_BITS)

\* A satisfied transaction spending the largest amount and a zero amount
C5_Witness ==
    /\ Satisfied
    /\ output.kind = "Ok"
    /\ circuit.in_amounts[1] = Pow2(MAX_AMOUNT_BITS) - 1
    /\ circuit.in_amounts[2] = 0

\* C6: Merkle membership of the input's commitment under the public root is
\* enforced exactly when the input amount is non-zero: a non-zero input
\* whose path does not hash to the root is unsatisfied, a zero input passes
\* with any path and root.
C6_MembershipIffNonZero ==
    Synthesized =>
        \A i \in 1..N_INS :
            /\ cs.ins[i].membership_enforced <=>
                   \/ circuit.in_amounts[i] = 0
                   \/ check_membership(circuit.merkle_paths[i], circuit.root,
                                       NativeCommitment(i))
            /\ (Satisfied /\ circuit.in_amounts[i] # 0) =>
                   cs.ins[i].merkle_path_membership

\* A satisfied transaction whose zero input carries the all-zero path, which
\* does not hash to the root
C6_Witness ==
    /\ Satisfied
    /\ output.kind = "Ok"
    /\ \E i \in 1..N_INS :
           /\ circuit.in_amounts[i] = 0
           /\ circuit.merkle_paths[i] = EmptyPath(MERKLE_TREE_LEVEL)
           /\ ~cs.ins[i].merkle_path_membership

C8_PublicInputVector ==
    Synthesized =>
        /\ InstanceNames = <<"vortex", "root", "public_amount",
                             "input_nullifier_0", "input_nullifier_1",
                             "output_commitment_0", "output_commitment_1",
                             "hashed_account_secret">>
        /\ InstanceValues = <<circuit.vortex, circuit.root, circuit.public_amount,
                              circuit.input_nullifier_0, circuit.input_nullifier_1,
                              circuit.output_commitment_0, circuit.output_commitment_1,
                              circuit.hashed_account_secret>>

\* The order with public_amount in seventh place: vortex, root, nullifier_0,
\* nullifier_1, commitment_out_0, commitment_out_1, public_amount,
\* hashed_account_secret.
C8_PublicAmountSeventh ==
    Synthesized =>
        InstanceValues = <<circuit.vortex, circuit.root,
                           circuit.input_nullifier_0, circuit.input_nullifier_1,
                           circuit.output_commitment_0, circuit.output_commitment_1,
                           circuit.public_amount, circuit.hashed_account_secret>>

\* A proved transaction whose public amount differs from its first nullifier
C8_Witness ==
    /\ Satisfied
    /\ output.kind = "Ok"
    /\ circuit.public_amount # circuit.input_nullifier_0

\* C9: the order in which generate_constraints allocates the public inputs
\* is the order of get_public_inputs, of the public_inputs array of the
\* proof output and of the element-by-element concatenation in
\* public_inputs_serialized_hex; each has exactly eight elements.
C9_OneOrderEverywhere ==
    Synthesized =>
        /\ Len(InstanceValues) = 8
        /\ InstanceNames = <<"vortex", "root", "public_amount",
                             "input_nullifier_0", "input_nullifier_1",
                             "output_commitment_0", "output_commitment_1",
                             "hashed_account_secret">>
        /\ get_public_inputs(circuit) = InstanceValues
        /\ output.kind = "Ok" =>
               /\ Len(output.value.public_inputs) = 8
               /\ Len(output.value.public_inputs_serialized_hex) = 8 * 2 * FrBytes
               /\ \A k \in 1..8 :
                      /\ parse_fr(output.value.public_inputs[k])
                             = [ok |-> TRUE, value |-> InstanceValues[k]]
                      /\ SubSeq(output.value.public_inputs_serialized_hex,
                                (k - 1) * 2 * FrBytes + 1, k * 2 * FrBytes)
                             = hex_encode(serialize_compressed(InstanceValues[k]))

\* A proof output whose eight public inputs are not all in the same place
\* under a permutation of the amount and the nullifiers
C9_Witness ==
    /\ Satisfied
    /\ output.kind = "Ok"
    /\ circuit.public_amount # circuit.input_nullifier_0
    /\ circuit.public_amount # circuit.output_commitment_1
    /\ Len(output.value.public_inputs) = 8

(***************************************************************************)
(* Properties of prove and verify, checked on SpecVerify                   *)
(***************************************************************************)
\* verify was called with the key the proof was made with
VerifiedWithMatchingKey == verdict # NoValue /\ verdict.verifying_key = <<1>>

\* The proof object handed to verify is the one prove returned but for
\* exactly one byte of its serialized proof
OneProofByteFlipped ==
    LET was == output.value.proof_serialized_hex
        is  == verdict.proof_json.proof_serialized_hex
    IN  /\ verdict.proof_json # MalformedJson
        /\ verdict.proof_json = [output.value EXCEPT !.proof_serialized_hex = is]
        /\ Len(is) = Len(was)
        /\ Cardinality({ k \in 1..(Len(was) \div 2) :
                             <<was[2 * k - 1], was[2 * k]>> # <<is[2 * k - 1], is[2 * k]>> }) = 1

\* The proof object handed to verify is the one prove returned but for
\* exactly one entry of public_inputs, now a different string
OnePublicInputReplaced ==
    LET was == output.value.public_inputs
        is  == verdict.proof_json.public_inputs
    IN  /\ verdict.proof_json # MalformedJson
        /\ verdict.proof_json = [output.value EXCEPT !.public_inputs = is]
        /\ Len(is) = Len(was)
        /\ Cardinality({ k \in 1..Len(was) : was[k] # is[k] }) = 1

\* C16: with every proof input zero and all-zero paths for both inputs, the
\* circuit is satisfied, prove returns a proof object and verify on that
\* object with the matching key returns true.
C16_AllZeroProvesAndVerifies ==
    input = AllZeroInput =>
        /\ cs # NoValue => Satisfied
        /\ cs # NoValue => output.kind = "Ok"
        /\ (VerifiedWithMatchingKey /\ verdict.proof_json = output.value) =>
               verdict.result = [kind |-> "Ok", value |-> TRUE]

\* C17: verify on a proof object with one byte of proofSerializedHex
\* flipped completes with the result false.
C17_FlippedByteVerifiesFalse ==
    (VerifiedWithMatchingKey /\ OneProofByteFlipped) =>
        verdict.result = [kind |-> "Ok", value |-> FALSE]

\* C18: verify returns true on what prove returned for a satisfying
\* witness, and false when one entry of publicInputs is replaced by a
\* different string.
C18_TrueThenFalseWhenTampered ==
    VerifiedWithMatchingKey =>
        /\ (verdict.proof_json = output.value /\ Satisfied) =>
               verdict.result = [kind |-> "Ok", value |-> TRUE]
        /\ OnePublicInputReplaced =>
               verdict.result = [kind |-> "Ok", value |-> FALSE]

(***************************************************************************)
(* Properties of the Merkle path lengths, checked on SpecCircuit           *)
(***************************************************************************)
WrongPathLength ==
    /\ input # MalformedJson
    /\ \/ Len(input.merkle_path_0) # MERKLE_TREE_LEVEL
       \/ Len(input.merkle_path_1) # MERKLE_TREE_LEVEL

\* C20: prove called with a merklePath0 or merklePath1 whose length is not
\* the tree height fails with an error of the Parse category, and no circuit
\* is built and no constraint synthesized.  (A proving key that does not
\* deserialize is reported first, as a Key error.)
C20_WrongPathLengthIsParseError ==
    (WrongPathLength /\ output # NoValue
        /\ output # [kind |-> "Err", error |-> "KeyError"]) =>
        /\ output = [kind |-> "Err", error |-> "ParseError"]
        /\ circuit = NoValue
        /\ cs = NoValue

(***************************************************************************)
(* Properties of the path indices, checked on SpecCircuit                  *)
(***************************************************************************)
\* Every field string and both paths of the input parse
InputWellFormed ==
    /\ input # MalformedJson
    /\ \A f \in ScalarFields : parse_fr(input[f]).ok
    /\ parse_merkle_path_binding(input.merkle_path_0).ok
    /\ parse_merkle_path_binding(input.merkle_path_1).ok

PathIndexOutOfRange ==
    \E f \in {"in_path_index_0", "in_path_index_1"} :
        parse_fr(input[f]).value >= Pow2(MERKLE_TREE_LEVEL)

\* C21: a well-formed input with a path index that is not below the tree
\* capacity 2^H is rejected when the circuit is constructed, and only such
\* an input is; prove reports it as an error of the Input category.
C21_PathIndexIsInputError ==
    (InputWellFormed /\ output # NoValue
        /\ output # [kind |-> "Err", error |-> "KeyError"]) =>
        /\ PathIndexOutOfRange <=> circuit = NoValue
        /\ PathIndexOutOfRange => output = [kind |-> "Err", error |-> "InputError"]

(***************************************************************************)
(* Properties of the amount sums, checked on SpecCircuit                   *)
(***************************************************************************)
\* The sums of the amounts as integers, not reduced
SumIn == circuit.in_amounts[1] + circuit.in_amounts[2]

SumOut == circuit.out_amounts[1] + circuit.out_amounts[2]

\* C28: in every satisfying witness the integer sums of the two input
\* amounts and of the two output amounts are below 2^(MAX_AMOUNT_BITS + 1),
\* which is below the field order, and the balance holds over the integers
\* with public_amount read as a deposit d or as a withdrawal F - w.
C28_NoWrapInAmountSums ==
    Satisfied =>
        /\ SumIn < Pow2(MAX_AMOUNT_BITS + 1)
        /\ SumOut < Pow2(MAX_AMOUNT_BITS + 1)
        /\ Pow2(MAX_AMOUNT_BITS + 1) < FieldModulus
        /\ \/ SumIn + circuit.public_amount = SumOut
           \/ SumIn - (FieldModulus - circuit.public_amount) = SumOut

C28_Witness ==
    /\ Satisfied
    /\ circuit.in_amounts[1] = MaxAmount
    /\ circuit.public_amount = FieldModulus - 1
    /\ SumIn - 1 = SumOut

(***************************************************************************)
(* Properties of the input strings, checked on SpecParse                   *)
(***************************************************************************)
\* The natural a string of decimal digits, or of hex digits after 0x,
\* denotes, or -1 when the string is neither
EncodedNatural(str) ==
    IF str # <<>> /\ \A k \in 1..Len(str) : IsDecimalDigit(str[k])
    THEN DigitsValue(str, 0).value
    ELSE IF /\ Len(str) > 2
            /\ SubSeq(str, 1, 2) = <<"0", "x">>
            /\ \A k \in 3..Len(str) : HexValue(str[k]) >= 0
    THEN HexDigitsValue(SubSeq(str, 3, Len(str)), 0).value
    ELSE -1

\* A decimal or 0x-prefixed hex encoding of an element of the field
IsFieldEncoding(str) == EncodedNatural(str) >= 0 /\ EncodedNatural(str) < FieldModulus

\* The value a circuit holds for a field of the input
CircuitField(self, f) ==
    IF f = "vortex" THEN self.vortex
    ELSE IF f = "in_amount_0" THEN self.in_amounts[1]
    ELSE self.out_blindings[2]

\* C19: by the native and by the browser prove, a field string is accepted
\* exactly when it is a decimal or 0x-prefixed hex encoding of an integer
\* below the modulus; every other string fails prove with a Parse error;
\* the circuit holds the integer the string denotes, unreduced.
C19_FieldStringsParsedExactly ==
    /\ (output # NoValue /\ output # [kind |-> "Err", error |-> "KeyError"]) =>
           /\ output = [kind |-> "Err", error |-> "ParseError"]
                  <=> \E f \in ParsedFields : ~IsFieldEncoding(input[f])
           /\ circuit # NoValue =>
                  \A f \in ParsedFields : CircuitField(circuit, f) = EncodedNatural(input[f])
    /\ (wasmOutput # NoValue /\ wasmOutput.kind # "Err") =>
           \A f \in ParsedFields :
               /\ IsFieldEncoding(input[f])
               /\ CircuitField(wasmOutput.circuit, f) = EncodedNatural(input[f])
    /\ (wasmOutput # NoValue /\ wasmOutput.kind = "Err"
            /\ wasmOutput.error \in {"Failed to parse decimal", "Failed to parse hex"}) =>
           \E f \in ParsedFields : ~IsFieldEncoding(input[f])
    /\ (wasmOutput # NoValue /\ \E f \in ParsedFields : ~IsFieldEncoding(input[f])) =>
           /\ wasmOutput.kind = "Err"
           /\ wasmOutput.error # "Failed to create circuit"

\* C22: every failure inside prove is returned to the caller as an error
\* value: the native and the browser prove end with a result or an error,
\* never with a panic, and the native prove on a witness that does not
\* satisfy the constraints returns a Proof error.
C22_FailuresAreErrorValues ==
    /\ output # NoValue =>
           /\ output.kind \in {"Ok", "Err"}
           /\ (cs # NoValue /\ ~Satisfied) => output = [kind |-> "Err", error |-> "ProofError"]
    /\ wasmOutput # NoValue => wasmOutput.kind \in {"Ok", "Err"}

(***************************************************************************)
(* Properties of the tree, checked on SpecTree                             *)
(***************************************************************************)
\* C10: after every sequence of inserted pairs, the empty sequence
\* included, the root of the tree equals the Move-style root rebuilt from
\* scratch over the same pairs.
C10_RootIsMoveStyleRoot == tree.root = moveRoot

\* The leaf list padded with the empty leaf to the 2^H leaves of the full tree
PaddedLeaves(H, leaves) ==
    [i \in 1..Pow2(H) |-> IF i <= Len(leaves) THEN leaves[i] ELSE ZERO_VALUE]

\* The root of the full binary tree over a layer of nodes, by Poseidon2
RECURSIVE FullTreeRoot(_)
FullTreeRoot(layer) ==
    IF Len(layer) = 1 THEN layer[1]
    ELSE FullTreeRoot([i \in 1..(Len(layer) \div 2) |->
                          hash2(layer[2 * i - 1], layer[2 * i])])

\* C11: after k >= 0 successful pair insertions, the root of the tree is the
\* root of the full binary tree with 2^H leaves whose first 2k leaves are
\* the inserted leaves in order and whose other leaves are the empty leaf.
C11_RootIsFullTreeRoot ==
    tree.root = FullTreeRoot(PaddedLeaves(TreeHeight, tree.leaves))


\* C14: insert_pair fails exactly when leaves.len + 2 > 2^H, which is
\* exactly when is_full() is true; a failed insert_pair leaves the leaf
\* list, the subtrees cache and the root as they were, and an insert_pair
\* on a tree that is not full succeeds and appends its two leaves.
C14_InsertFailsIffFull ==
    [][ /\ ~lastInsert'.ok <=> Len(tree.leaves) + 2 > Pow2(TreeHeight)
        /\ ~lastInsert'.ok <=> is_full(TreeHeight, tree)
        /\ ~lastInsert'.ok =>
               /\ tree'.leaves = tree.leaves
               /\ tree'.subtrees = tree.subtrees
               /\ tree'.root = tree.root
        /\ lastInsert'.ok =>
               /\ Len(tree'.leaves) = Len(tree.leaves) + 2
               /\ SubSeq(tree'.leaves, 1, Len(tree.leaves)) = tree.leaves ]_vars

\* An insert_pair refused by a full tree
C14_Witness ==
    /\ lastInsert = [ok |-> FALSE]
    /\ is_full(TreeHeight, tree)
    /\ Len(tree.leaves) = Pow2(TreeHeight)
    /\ Len(pairs) = Pow2(TreeHeight - 1)

\* C15: across insert_pair, insert, insert_batch and bulk_insert the tree
\* is append-only: every call leaves the previous leaf list as a prefix of
\* the new one, every pair taken in appends exactly its two leaves, a
\* successful insert_pair or insert appends exactly two, and len() stays
\* even and at most 2^H.
C15_AppendOnly ==
    [][ /\ Len(tree'.leaves) >= Len(tree.leaves)
        /\ SubSeq(tree'.leaves, 1, Len(tree.leaves)) = tree.leaves
        /\ Len(tree'.leaves) % 2 = 0
        /\ Len(tree'.leaves) <= Pow2(TreeHeight)
        /\ Len(tree'.leaves) = 2 * Len(pairs')
        /\ SubSeq(pairs', 1, Len(pairs)) = pairs
        /\ \A k \in 1..Len(pairs') :
               /\ tree'.leaves[2 * k - 1] = pairs'[k][1]
               /\ tree'.leaves[2 * k] = pairs'[k][2]
        /\ lastInsert' = [ok |-> TRUE] =>
               Len(tree'.leaves) = Len(tree.leaves) + 2 ]_vars

\* A batch that overflowed: its first pairs stay in the tree, now full,
\* behind the leaves that were there before
C15_Witness ==
    /\ lastInsert = [ok |-> FALSE, op |-> "insert_batch"]
    /\ Len(tree.leaves) = Pow2(TreeHeight)
    /\ SubSeq(tree.leaves, 1, 4) = <<1, 2, 2, 2>>
    /\ SubSeq(tree.leaves, 5, 8) = <<1, 1, 1, 2>>

(***************************************************************************)
(* Properties of membership proofs, checked on SpecProof                   *)
(***************************************************************************)
\* C12: for every tree built by pair insertions, duplicates included, and
\* every index below len(), generate_membership_proof succeeds and its
\* path hashes from leaves[index] to the root, so check_membership and
\* verify_path are true; an index from len() on is an error.
C12_GeneratedPathReachesRoot ==
    (merkleProof # NoValue /\ merkleProof.generated) =>
        /\ merkleProof.ok <=> merkleProof.index < Len(tree.leaves)
        /\ merkleProof.ok =>
               /\ merkleProof.leaf = At(tree.leaves, merkleProof.index)
               /\ Len(merkleProof.path) = TreeHeight
               /\ calculate_root(merkleProof.path, merkleProof.leaf) = tree.root
               /\ check_membership(merkleProof.path, tree.root, merkleProof.leaf)
               /\ verified # NoValue => verified.result

\* A verified proof of a right-hand leaf in a full tree with equal leaves
C12_Witness ==
    /\ merkleProof # NoValue
    /\ merkleProof.generated
    /\ merkleProof.ok
    /\ merkleProof.index = Pow2(TreeHeight) - 1
    /\ At(tree.leaves, 0) = At(tree.leaves, 1)
    /\ At(tree.leaves, 2) = At(tree.leaves, 3)
    /\ verified = [result |-> TRUE]

\* C13: for every leaf and every path, PathVar::root_hash computes the root
\* Path::calculate_root computes, so the gadget's Boolean is the native
\* check_membership, and a path the tree generated for a leaf satisfies
\* the membership constraint under the tree's root.
C13_GadgetRootIsNativeRoot ==
    gadget # NoValue =>
        /\ gadget.computed_root = calculate_root(merkleProof.path, merkleProof.leaf)
        /\ gadget.is_member <=>
               check_membership(merkleProof.path, tree.root, merkleProof.leaf)
        /\ merkleProof.generated => gadget.is_member

\* The gadget accepts a generated path whose running hash is on the right
\* at the leaf level and at the level above
C13_Witness ==
    /\ gadget # NoValue
    /\ merkleProof.generated
    /\ merkleProof.index = 3
    /\ gadget.is_member
    /\ gadget.computed_root = tree.root

(***************************************************************************)
(* Properties of get_index, checked on SpecIndex                           *)
(***************************************************************************)
\* C30: for every tree built by pair insertions and every index below its
\* length, get_index on the tree's root, the leaf at the index and the path
\* generated for the index returns the index as a field element; for a leaf
\* and a path that do not hash to the root it returns an error.
C30_GetIndexReturnsIndex ==
    indexFound # NoValue =>
        /\ merkleProof.generated =>
               /\ indexFound.ok
               /\ indexFound.index = FrFrom(merkleProof.index)
        /\ ~check_membership(merkleProof.path, tree.root, merkleProof.leaf) =>
               ~indexFound.ok


(***************************************************************************)
\* C26: for tuples of length 1 to 4 the value the Poseidon gadget computes
\* equals the native hash of the same tuple at the same width, and the
\* constraints the gadget emits are satisfied by its assignment.
C26_GadgetHashIsNativeHash ==
    (hashed.native # NoValue /\ hashed.var # NoValue) =>
        /\ hashed.var.value = hashed.native.value
        /\ hashed.var.is_satisfied

C26_Witness ==
    /\ hashed.native # NoValue
    /\ hashed.var # NoValue
    /\ Len(hashed.inputs) = 4
    /\ hashed.inputs[4] = FieldModulus - 1
    /\ hashed.var.value # 0

(***************************************************************************)
(* Properties of the cache, checked on SpecCache                           *)
(***************************************************************************)
\* Key bytes that decode
DecodableBlobs == { <<k>> : k \in KeyIds }

KeyErr == [kind |-> "Err", error |-> "KeyError"]

\* The call of thread t returns in this step
Returns(t) == calls[t].pc # "returned" /\ calls'[t].pc = "returned"

ReturnedProve(t) == calls[t].op = "prove" /\ calls[t].pc = "returned"

\* The key a returned proof was made with
ProvedWith(t, k) == calls[t].result.kind = "Ok" /\ calls[t].result.value.proof_a = <<k>>

ProveLeavesSlot ==
    \A t \in Threads :
        (calls[t].op = "prove" /\ calls'[t] # calls[t]) => cache' = cache

LocalDecode ==
    \A t \in Threads :
        (ReturnedProve(t) /\ calls[t].snapshot = None) =>
            IF calls[t].arg \in DecodableBlobs
            THEN ProvedWith(t, calls[t].arg[1])
            ELSE calls[t].result = KeyErr

\* With no other thread calling, the slot a prove found empty is empty
\* when it returns
StillEmpty ==
    \A t \in Threads :
        (ReturnedProve(t) /\ calls[t].snapshot = None
            /\ \A u \in Threads \ {t} : calls[u].n = 0) => cache = None

C24_LockOnlyAroundClone ==
    /\ \A t \in Threads :
           (calls[t].op = "prove" /\ calls[t].pc \in {"cloned", "returned"}) => lock # t
    /\ lock # Unlocked =>
           /\ calls[lock].pc = "locked"
           /\ ENABLED (ProveClone(lock) \/ InitStore(lock) \/ ClearStore(lock))
    /\ \A t \in Threads :
           (calls[t].pc = "entered" /\ lock = Unlocked) => ENABLED (Lock(t) \/ InitFail(t))

C24_Witness ==
    \E t \in Threads, u \in Threads :
        /\ calls[t].op = "prove" /\ calls[t].pc = "cloned"
        /\ calls[u].op = "init_prover_cache" /\ lock = u

\* C25: the slot changes only when an init_prover_cache or a
\* clear_prover_cache returns: an init whose bytes decode stores that key
\* and returns true, an init whose bytes do not decode returns a Key error
\* and leaves the slot as it was, a clear empties the slot and returns true,
\* whatever the slot held.
CacheStep ==
    /\ \A t \in Threads :
           Returns(t) =>
               IF calls[t].op = "init_prover_cache"
               THEN IF calls[t].arg \in DecodableBlobs
                    THEN /\ cache' = Some(calls[t].arg[1])
                         /\ calls'[t].result = [kind |-> "Ok", value |-> TRUE]
                    ELSE /\ cache' = cache
                         /\ calls'[t].result = KeyErr
               ELSE IF calls[t].op = "clear_prover_cache"
               THEN /\ cache' = None
                    /\ calls'[t].result.value = TRUE
               ELSE cache' = cache
    /\ cache' # cache =>
           \E t \in Threads :
               Returns(t) /\ calls[t].op \in {"init_prover_cache", "clear_prover_cache"}

C25_SlotFollowsInitAndClear == [][CacheStep]_vars

C25_Witness ==
    \E t \in Threads :
        /\ calls[t].op = "init_prover_cache" /\ calls[t].pc = "returned"
        /\ calls[t].n = MaxCalls /\ calls[t].result = KeyErr
        /\ cache # None
        /\ \A u \in Threads \ {t} : calls[u].n = 0

\* C29: a prove that read a key from the cache proves with exactly that
\* key: its key argument is not decoded (malformed bytes give no Key error)
\* and a later init_prover_cache or clear_prover_cache does not change the
\* key of this call.
C29_ProveUsesSnapshot ==
    \A t \in Threads :
        (ReturnedProve(t) /\ calls[t].snapshot # None) =>
            ProvedWith(t, calls[t].snapshot.value)

C29_Witness ==
    \E t \in Threads :
        /\ ReturnedProve(t) /\ calls[t].snapshot = Some(2)
        /\ calls[t].arg \notin DecodableBlobs
        /\ ProvedWith(t, 2)
        /\ cache # Some(2)

=============================================================================
